---------------------------- MODULE Spec2Model ----------------------------
(***************************************************************************)
(* A model of ApertureMapModelTools/BulkRun/__bulk_run_core__.py: the      *)
(* scheduler (start_simulations, check_processes, start_run), the batch    *)
(* drivers (bulk_run, dry_run), the run-set expander (combine_run_args)    *)
(* and the input-file classes (ArgInput, InputFile).                       *)
(*                                                                         *)
(* Memory amounts are whole numbers of one fixed unit.  Texts are          *)
(* sequences of one-character strings.                                     *)
(***************************************************************************)
EXTENDS Integers, Sequences, FiniteSets, TLC

(***************************************************************************)
(* Bounds of the model.                                                    *)
(***************************************************************************)
MaxJobs == 3
MaxReq == 2
MaxRAM == 3
MaxCPUs == 4

VARIABLES
    input_file_list,  \* start_simulations: the pending queue
    processes,        \* start_simulations: the active process list
    RAM_in_use,       \* start_simulations: the reserved memory, per process
    num_CPUs,         \* start_simulations: the slot limit
    avail_RAM,        \* start_simulations: the memory budget
    pc,               \* the control point of the scheduler
    i,                \* check_processes: the index of the sweep
    free_RAM,         \* start_run: its local free_RAM
    recheck,          \* start_run: its local recheck
    inp_file,         \* start_run: the job popped from the queue
    proc,             \* start_run: the Popen object not yet in the list
    terminated,       \* the launched processes that have terminated
    written,          \* the input files written to disk, in order
    launched,         \* the processes launched, in order
    cmds,             \* the commands the processes were launched with
    queue0,           \* the queue start_simulations was called with
    heap,             \* the ArgInput objects, by address
    docs,             \* the InputFile objects, the parsed one first
    raised,           \* what the last call on a document raised
    target,           \* the document the last call was made on or made
    nops,             \* the number of calls made on documents
    sim_inputs,       \* the grid specifications (input_map_args)
    files,            \* the files written by write_inp_file, in order
    mode,             \* the driver called: "bulk_run", "dry_run" or "none"
    sys_RAM,          \* the driver's sys_RAM, in GB
    init_infile,      \* the lines of the template file
    RAM_per_map,      \* estimate_req_RAM: the estimates made so far
    error,            \* estimate_req_RAM: an estimate exceeded avail_RAM
    parsed,           \* the template file has been read
    line_text,        \* the text a line object was made of
    line_objs,        \* the line objects made: of the text, then of renderings
    line_calls        \* the calls made on line_objs[1], in order

schedVars == <<input_file_list, processes, RAM_in_use, num_CPUs, avail_RAM,
               pc, i, free_RAM, recheck, inp_file, proc, terminated,
               written, launched, cmds, queue0>>

docVars == <<heap, docs, raised, target, nops, sim_inputs, files>>

runVars == <<mode, sys_RAM, init_infile, RAM_per_map, error, parsed>>

lineVars == <<line_text, line_objs, line_calls>>

vars == <<schedVars, docVars, runVars, lineVars>>

(***************************************************************************)
(* Helpers on sequences.                                                   *)
(***************************************************************************)
RECURSIVE SumSeq(_)
SumSeq(s) == IF s = <<>> THEN 0 ELSE Head(s) + SumSeq(Tail(s))

\* a deletion that takes everything before the element as well
DelAt_Through(s, k) == SubSeq(s, k + 1, Len(s))

\* a deletion that takes the last entry
DelAt_Last(s, k) == SubSeq(s, 1, Len(s) - 1)

\* del s[k] and s.pop(k), k counted from 1
DelAt(s, k) == [j \in 1..(Len(s) - 1) |-> IF j < k THEN s[j] ELSE s[j + 1]]

Range(s) == {s[k] : k \in DOMAIN s}

(***************************************************************************)
(* Texts.  A str is a sequence of one-character strings.                   *)
(***************************************************************************)
\* the characters the regular expression \s matches
Whitespace == {" ", "\t"}

UpperCase == <<"A", "B", "C", "D", "E", "F", "G", "H", "I", "J", "K", "L", "M",
               "N", "O", "P", "Q", "R", "S", "T", "U", "V", "W", "X", "Y", "Z">>

LowerCase == <<"a", "b", "c", "d", "e", "f", "g", "h", "i", "j", "k", "l", "m",
               "n", "o", "p", "q", "r", "s", "t", "u", "v", "w", "x", "y", "z">>

\* the characters of the class [a-zA-z, -]: the range A-z holds the letters
\* and the characters between Z and a (the grave accent, which no text of
\* the model holds, is left out)
KeywordChars == Range(UpperCase) \cup Range(LowerCase)
                \cup {"[", "\\", "]", "^", "_", ",", " ", "-"}

\* the case folding of flags=re.I
Lower(c) == IF \E k \in DOMAIN UpperCase : UpperCase[k] = c
            THEN LowerCase[CHOOSE k \in DOMAIN UpperCase : UpperCase[k] = c]
            ELSE c

\* re.split(r'\s', s): the pieces between whitespace characters, the empty
\* ones included; cur is the piece being read
RECURSIVE SplitFrom(_, _)
SplitFrom(s, cur) ==
    IF s = <<>> THEN <<cur>>
    ELSE IF Head(s) \in Whitespace
         THEN <<cur>> \o SplitFrom(Tail(s), <<>>)
         ELSE SplitFrom(Tail(s), Append(cur, Head(s)))

re_split(s) == SplitFrom(s, <<>>)

\* ' '.join(arr)
RECURSIVE Join(_)
Join(arr) ==
    IF arr = <<>> THEN <<>>
    ELSE IF Len(arr) = 1 THEN arr[1]
    ELSE arr[1] \o <<" ">> \o Join(Tail(arr))

\* the longest prefix of s made of characters of class
RECURSIVE TakeWhile(_, _)
TakeWhile(s, class) ==
    IF s = <<>> \/ Head(s) \notin class THEN <<>>
    ELSE <<Head(s)>> \o TakeWhile(Tail(s), class)

\* s without its longest prefix made of characters of class
RECURSIVE DropWhile(_, _)
DropWhile(s, class) ==
    IF s = <<>> \/ Head(s) \notin class THEN s
    ELSE DropWhile(Tail(s), class)

\* whether s starts with pat, case folded
StartsWith(s, pat) ==
    /\ Len(pat) <= Len(s)
    /\ \A k \in DOMAIN pat : Lower(s[k]) = Lower(pat[k])

\* re.compile(pat, flags=re.I).sub(repl, s) for a pattern of literal
\* characters: every occurrence of pat in s, left to right, replaced by repl
RECURSIVE re_sub(_, _, _)
re_sub(pat, repl, s) ==
    IF s = <<>> THEN <<>>
    ELSE IF StartsWith(s, pat)
         THEN repl \o re_sub(pat, repl, SubSeq(s, Len(pat) + 1, Len(s)))
         ELSE <<Head(s)>> \o re_sub(pat, repl, Tail(s))

(***************************************************************************)
(* ArgInput: one line of an input file.  value_index is the index Python   *)
(* keeps, counted from 0: -1 when the line has no value slot.              *)
(***************************************************************************)
NONE == <<"N", "O", "N", "E">>

\* re.match(r'[; ]*([a-zA-z, -]*)', line_arr[0]).group(1)
Keyword(field) == TakeWhile(DropWhile(field, {";", " "}), KeywordChars)

\* re.search(r':\s', line)
HasColonSpace(line) ==
    \E k \in 1..(Len(line) - 1) : line[k] = ":" /\ line[k + 1] \in Whitespace

\* re.search(r':$', field)
EndsWithColon(field) == field # <<>> /\ field[Len(field)] = ":"

\* a loop that stops at the first field ending with a colon
RECURSIVE ValueSlot_First(_, _, _)
ValueSlot_First(line_arr, k, slot) ==
    IF k > Len(line_arr) THEN slot
    ELSE IF line_arr[k] # <<>> /\ line_arr[k][Len(line_arr[k])] = ":"
         THEN IF k + 1 <= Len(line_arr)
              THEN [value |-> line_arr[k + 1], value_index |-> k]
              ELSE [value |-> <<"N", "O", "N", "E">>, value_index |-> k]
         ELSE ValueSlot_First(line_arr, k + 1, slot)

\* ArgInput.__init__: the loop over line_arr from its k-th field on; every
\* field ending with a colon sets the value and the index again
RECURSIVE ValueSlot(_, _, _)
ValueSlot(line_arr, k, slot) ==
    IF k > Len(line_arr) THEN slot
    ELSE IF EndsWithColon(line_arr[k])
         THEN ValueSlot(line_arr, k + 1,
                        IF k + 1 <= Len(line_arr)
                        THEN [value |-> line_arr[k + 1], value_index |-> k]
                        ELSE [value |-> NONE, value_index |-> k])
         ELSE ValueSlot(line_arr, k + 1, slot)

\* ArgInput.__init__
ArgInput(line) ==
    LET commented == line # <<>> /\ line[1] = ";"
        text == IF commented THEN Tail(line) ELSE line
        fields == SelectSeq(re_split(text), LAMBDA f : f # <<>>)
        line_arr == IF fields = <<>> THEN <<<<>>>> ELSE fields
        whole == [value |-> text, value_index |-> -1]
        slot == IF HasColonSpace(text) THEN ValueSlot(line_arr, 1, whole)
                ELSE whole
    IN  [line |-> text,
         line_arr |-> line_arr,
         keyword |-> Keyword(line_arr[1]),
         value |-> slot.value,
         value_index |-> slot.value_index,
         commented_out |-> commented]

\* an update that never clears the flag
update_value_KeepFlag(arg, new_value, uncomment) ==
    IF arg.value_index > 0 /\ arg.value_index + 1 > Len(arg.line_arr)
    THEN [arg |-> arg, raised |-> "IndexError"]
    ELSE LET arr == IF arg.value_index > 0
                    THEN [arg.line_arr EXCEPT ![arg.value_index + 1] = new_value]
                    ELSE re_split(new_value)
         IN [arg |-> [arg EXCEPT !.line_arr = arr,
                                 !.line = Join(arr),
                                 !.value = new_value],
             raised |-> "None"]

\* ArgInput.update_value: the line after the call and what it raised; the
\* IndexError of line_arr[value_index] = new_value comes after the flag is
\* cleared and before anything else is set
update_value(arg, new_value, uncomment) ==
    LET flag == IF uncomment THEN FALSE ELSE arg.commented_out IN
    IF arg.value_index > 0 /\ arg.value_index + 1 > Len(arg.line_arr)
    THEN [arg |-> [arg EXCEPT !.commented_out = flag],
          raised |-> "IndexError"]
    ELSE LET arr == IF arg.value_index > 0
                    THEN [arg.line_arr EXCEPT ![arg.value_index + 1] = new_value]
                    ELSE re_split(new_value)
         IN [arg |-> [arg EXCEPT !.commented_out = flag,
                                 !.line_arr = arr,
                                 !.line = Join(arr),
                                 !.value = new_value],
             raised |-> "None"]

\* a rendering that leaves the semicolon out
output_line_NoMark(arg) == arg.line

\* ArgInput.output_line
output_line(arg) == IF arg.commented_out THEN <<";">> \o arg.line ELSE arg.line

(***************************************************************************)
(* Python dicts, as the sequence of their [key, val] items in insertion    *)
(* order.                                                                  *)
(***************************************************************************)
DictKeys(d) == [k \in DOMAIN d |-> d[k].key]

DictHas(d, key) == \E k \in DOMAIN d : d[k].key = key

\* d[key], for a key of d
DictGet(d, key) == d[CHOOSE k \in DOMAIN d : d[k].key = key].val

\* d[key] = val: a key of d keeps its place, a new key goes last
DictSet(d, key, val) ==
    IF DictHas(d, key)
    THEN [k \in DOMAIN d |-> IF d[k].key = key THEN [key |-> key, val |-> val]
                                              ELSE d[k]]
    ELSE Append(d, [key |-> key, val |-> val])

(***************************************************************************)
(* InputFile: a document.  Its ArgInput objects live in a heap, a sequence *)
(* of ArgInput records; arg_dict maps a keyword to the address of its      *)
(* object.  The dicts and lists of a document are made in its __init__ and *)
(* referred to by nothing else, so they are kept in the document's record. *)
(* construct_file_names also makes the directories of the resolved paths,  *)
(* which nothing here reads.                                               *)
(***************************************************************************)
EXE_FILE == <<"E", "X", "E", "-", "F", "I", "L", "E">>

APER_MAP == <<"A", "P", "E", "R", "-", "M", "A", "P">>

input_file == <<"i", "n", "p", "u", "t", "_", "f", "i", "l", "e">>

\* 'FRACTURE_INITIALIZATION.INP'
outfile_name0 == <<"F", "R", "A", "C", "T", "U", "R", "E", "_", "I", "N", "I",
                   "T", "I", "A", "L", "I", "Z", "A", "T", "I", "O", "N", ".",
                   "I", "N", "P">>

\* InputFile.__init__ with infile=None
InputFile(filename_formats) ==
    [arg_dict |-> <<>>,
     filename_format_args |-> <<>>,
     arg_order |-> <<>>,
     RAM_req |-> 0,
     outfile_name |-> outfile_name0,
     filename_formats |->
        IF DictHas(filename_formats, input_file) THEN filename_formats
        ELSE DictSet(filename_formats, input_file, outfile_name0)]

\* parse_input_file: re.sub(r'^(;+)\s+', r'\1', line)
StripAfterSemicolons(line) ==
    LET semis == TakeWhile(line, {";"})
        rest == DropWhile(line, {";"})
    IN  IF semis # <<>> /\ rest # <<>> /\ Head(rest) \in Whitespace
        THEN semis \o DropWhile(rest, Whitespace)
        ELSE line

\* parse_input_file: the loop over content_arr from its k-th line on; every
\* line makes a new ArgInput object, a repeated keyword is pointed at the
\* new one
RECURSIVE ParseLines(_, _, _, _)
ParseLines(h, doc, content_arr, k) ==
    IF k > Len(content_arr) THEN [heap |-> h, doc |-> doc]
    ELSE LET arg == ArgInput(StripAfterSemicolons(content_arr[k])) IN
         ParseLines(Append(h, arg),
                    [doc EXCEPT !.arg_order = Append(@, arg.keyword),
                                !.arg_dict = DictSet(@, arg.keyword, Len(h) + 1)],
                    content_arr, k + 1)

\* a parse that asks only for some line
parse_input_file_Lenient(h, doc, content_arr) ==
    LET r == ParseLines(h, doc, content_arr, 1) IN
    [heap |-> r.heap,
     doc |-> r.doc,
     raised |-> IF r.doc.arg_dict # <<>> THEN "None" ELSE "SystemExit"]

\* parse_input_file, of the lines of a file (content.split('\n')): the
\* heap, the document and what was raised
parse_input_file(h, doc, content_arr) ==
    LET r == ParseLines(h, doc, content_arr, 1) IN
    [heap |-> r.heap,
     doc |-> r.doc,
     raised |-> IF DictHas(r.doc.arg_dict, EXE_FILE) THEN "None"
                ELSE "SystemExit"]

\* clone: the loop over the keys of arg_dict from the k-th on
RECURSIVE CloneArgs(_, _, _, _)
CloneArgs(h, args, new_args, k) ==
    IF k > Len(args) THEN [heap |-> h, arg_dict |-> new_args]
    ELSE CloneArgs(Append(h, ArgInput(output_line(h[args[k].val]))),
                   args,
                   Append(new_args, [key |-> args[k].key, val |-> Len(h) + 1]),
                   k + 1)

\* a clone that is the document itself
clone_Alias(h, doc, file_formats) == [heap |-> h, doc |-> doc]

\* a clone that keeps the ArgInput objects of the document it copies
clone_Shallow(h, doc, file_formats) ==
    [heap |-> h,
     doc |-> [InputFile(IF file_formats = <<>> THEN doc.filename_formats
                        ELSE file_formats[1])
              EXCEPT !.arg_dict = doc.arg_dict,
                     !.arg_order = doc.arg_order]]

\* InputFile.clone; file_formats is <<>> for None and <<d>> for the dict d
clone(h, doc, file_formats) ==
    LET r == CloneArgs(h, doc.arg_dict, <<>>, 1) IN
    [heap |-> r.heap,
     doc |-> [InputFile(IF file_formats = <<>> THEN doc.filename_formats
                        ELSE file_formats[1])
              EXCEPT !.arg_dict = r.arg_dict,
                     !.arg_order = doc.arg_order]]

\* update_args: the loop over the items of args from the k-th on; KeyError
\* is caught, the IndexError of update_value is not
RECURSIVE UpdateArgsFrom(_, _, _, _)
UpdateArgsFrom(h, doc, args, k) ==
    IF k > Len(args) THEN [heap |-> h, doc |-> doc, raised |-> "None"]
    ELSE IF DictHas(doc.arg_dict, args[k].key)
         THEN LET addr == DictGet(doc.arg_dict, args[k].key)
                  r == update_value(h[addr], args[k].val, TRUE)
                  h2 == [h EXCEPT ![addr] = r.arg]
              IN  IF r.raised # "None"
                  THEN [heap |-> h2, doc |-> doc, raised |-> r.raised]
                  ELSE UpdateArgsFrom(h2, doc, args, k + 1)
         ELSE UpdateArgsFrom(h,
                  [doc EXCEPT !.filename_format_args =
                                  DictSet(@, args[k].key, args[k].val)],
                  args, k + 1)

\* InputFile.update_args
update_args(h, doc, args) == UpdateArgsFrom(h, doc, args, 1)

\* construct_file_names: the pattern '%' + arg + '%'
Placeholder(arg) == <<"%">> \o arg \o <<"%">>

\* construct_file_names: pattern.sub(value, outfiles[fname]) for every fname
SubAll(outfiles, arg, value) ==
    [k \in DOMAIN outfiles |->
        [key |-> outfiles[k].key,
         val |-> re_sub(Placeholder(arg), value, outfiles[k].val)]]

\* construct_file_names: the loop over arg_dict.keys() from the k-th on
RECURSIVE SubArgs(_, _, _, _)
SubArgs(h, arg_dict, outfiles, k) ==
    IF k > Len(arg_dict) THEN outfiles
    ELSE SubArgs(h, arg_dict,
                 SubAll(outfiles, arg_dict[k].key, h[arg_dict[k].val].value),
                 k + 1)

\* construct_file_names: the loop over filename_format_args.keys()
RECURSIVE SubFormatArgs(_, _, _)
SubFormatArgs(format_args, outfiles, k) ==
    IF k > Len(format_args) THEN outfiles
    ELSE SubFormatArgs(format_args,
                       SubAll(outfiles, format_args[k].key, format_args[k].val),
                       k + 1)

\* construct_file_names: the loop over outfiles.keys() from the k-th on,
\* which updates the lines named by outfiles and raises KeyError for a name
\* that is no line and is not input_file; field is the name the KeyError
\* carries
RECURSIVE UpdateOutfiles(_, _, _, _)
UpdateOutfiles(h, doc, outfiles, k) ==
    IF k > Len(outfiles)
    THEN [heap |-> h, raised |-> "None", field |-> <<>>]
    ELSE IF DictHas(doc.arg_dict, outfiles[k].key)
         THEN LET addr == DictGet(doc.arg_dict, outfiles[k].key)
                  r == update_value(h[addr], outfiles[k].val, TRUE)
                  h2 == [h EXCEPT ![addr] = r.arg]
              IN  IF r.raised # "None"
                  THEN [heap |-> h2, raised |-> r.raised, field |-> <<>>]
                  ELSE UpdateOutfiles(h2, doc, outfiles, k + 1)
         ELSE IF outfiles[k].key = input_file
              THEN UpdateOutfiles(h, doc, outfiles, k + 1)
              ELSE [heap |-> h, raised |-> "KeyError",
                    field |-> outfiles[k].key]

\* InputFile.construct_file_names
construct_file_names(h, doc) ==
    LET outfiles == SubFormatArgs(doc.filename_format_args,
                        SubArgs(h, doc.arg_dict, doc.filename_formats, 1), 1)
        r == UpdateOutfiles(h, doc, outfiles, 1)
    IN  [heap |-> r.heap,
         doc |-> IF r.raised = "None"
                 THEN [doc EXCEPT !.outfile_name = DictGet(outfiles, input_file)]
                 ELSE doc,
         raised |-> r.raised,
         field |-> r.field]

\* write_inp_file: the lines written, output_line() of arg_dict[key] for
\* every key of arg_order
Content(h, doc) ==
    [k \in DOMAIN doc.arg_order |->
        output_line(h[DictGet(doc.arg_dict, doc.arg_order[k])])]

\* InputFile.write_inp_file with alt_path=None: file is <<>> when
\* construct_file_names raised, else the one file written
write_inp_file(h, doc) ==
    LET Written(r) ==
            [heap |-> r.heap,
             doc |-> r.doc,
             raised |-> r.raised,
             file |-> IF r.raised = "None"
                      THEN <<[name |-> r.doc.outfile_name,
                              content |-> Content(r.heap, r.doc)]>>
                      ELSE <<>>]
    IN  Written(construct_file_names(h, doc))

(***************************************************************************)
(* combine_run_args.  A grid specification (map_args) is a record of its   *)
(* aperture_map, its run_params (a dict from a parameter name to the list  *)
(* of its values), its filename_formats and its RAM_req.                   *)
(***************************************************************************)
\* a product whose first pool varies fastest
RECURSIVE ProductFrom_FirstFastest(_, _, _)
ProductFrom_FirstFastest(pools, k, result) ==
    IF k > Len(pools) THEN result
    ELSE ProductFrom_FirstFastest(pools, k + 1,
             [n \in 1..(Len(result) * Len(pools[k])) |->
                 Append(result[((n - 1) % Len(result)) + 1],
                        pools[k][((n - 1) \div Len(result)) + 1])])

\* itertools.product: result = [x + [y] for x in result for y in pool], for
\* the pools from the k-th on
RECURSIVE ProductFrom(_, _, _)
ProductFrom(pools, k, result) ==
    IF k > Len(pools) THEN result
    ELSE ProductFrom(pools, k + 1,
             [n \in 1..(Len(result) * Len(pools[k])) |->
                 Append(result[((n - 1) \div Len(pools[k])) + 1],
                        pools[k][((n - 1) % Len(pools[k])) + 1])])

\* list(product(*values))
product(values) == ProductFrom(values, 1, <<<<>>>>)

\* {k: v for k, v in zip(keys, comb)}, then args['APER-MAP'] = aperture_map
RunArgs(keys, comb, aperture_map) ==
    DictSet([k \in DOMAIN keys |-> [key |-> keys[k], val |-> comb[k]]],
            APER_MAP, aperture_map)

\* combine_run_args: the loop over param_combs from the k-th on
RECURSIVE CombineCombs(_, _, _, _, _, _)
CombineCombs(h, init_input_file, map_args, param_combs, k, list) ==
    IF k > Len(param_combs)
    THEN [heap |-> h, list |-> list, raised |-> "None"]
    ELSE LET args == RunArgs(DictKeys(map_args.run_params), param_combs[k],
                             map_args.aperture_map)
             c == clone(h, init_input_file, <<map_args.filename_formats>>)
             u == update_args(c.heap,
                              [c.doc EXCEPT !.RAM_req = map_args.RAM_req],
                              args)
         IN  IF u.raised # "None"
             THEN [heap |-> u.heap, list |-> list, raised |-> u.raised]
             ELSE CombineCombs(u.heap, init_input_file, map_args, param_combs,
                               k + 1, Append(list, u.doc))

\* combine_run_args: the loop over input_map_args from the g-th on
RECURSIVE CombineMaps(_, _, _, _, _)
CombineMaps(h, init_input_file, input_map_args, g, list) ==
    IF g > Len(input_map_args)
    THEN [heap |-> h, list |-> list, raised |-> "None"]
    ELSE LET values == [k \in DOMAIN input_map_args[g].run_params |->
                           input_map_args[g].run_params[k].val]
             r == CombineCombs(h, init_input_file, input_map_args[g],
                               product(values), 1, list)
         IN  IF r.raised # "None" THEN r
             ELSE CombineMaps(r.heap, init_input_file, input_map_args,
                              g + 1, r.list)

\* combine_run_args: the heap, the list returned and what was raised
combine_run_args(h, input_map_args, init_input_file) ==
    CombineMaps(h, init_input_file, input_map_args, 1, <<>>)

(***************************************************************************)
(* The scheduler.  A queued job is the part of an InputFile the scheduler  *)
(* uses: its RAM_req, and whether write_inp_file succeeds on it, which     *)
(* construct_file_names decides (it raises KeyError when a declared output *)
(* name has no line in the document).  id is the job's place in the queue  *)
(* start_simulations was called with; a process is named by its job's id.  *)
(***************************************************************************)
None == <<>>
NoJob == [id |-> 0, RAM_req |-> 0, resolves |-> TRUE]
DummyProcess == 0

\* no line object is in play on its own
NoLine ==
    /\ line_text = <<>>
    /\ line_objs = <<>>
    /\ line_calls = <<>>

\* neither bulk_run nor dry_run has been called
NoRun ==
    /\ mode = "none"
    /\ sys_RAM = 0
    /\ init_infile = <<>>
    /\ RAM_per_map = <<>>
    /\ error = FALSE
    /\ parsed = FALSE

\* no document is in play
NoDocs ==
    /\ heap = <<>>
    /\ docs = <<>>
    /\ raised = "None"
    /\ target = 0
    /\ nops = 0
    /\ sim_inputs = <<>>
    /\ files = <<>>

Jobs(n) == [1..n -> [RAM_req : 1..MaxReq, resolves : BOOLEAN]]

Queue(f) == [k \in DOMAIN f |->
               [id |-> k, RAM_req |-> f[k].RAM_req, resolves |-> f[k].resolves]]

\* a poll that never reports the placeholder finished
poll_NoDummy(p) == IF p \in terminated THEN <<0>> ELSE None

\* a poll that reports every process finished
poll_Eager(p) == <<0>>

\* proc.poll(): DummyProcess returns 0, a Popen object None until its
\* process has terminated
poll(p) == IF p = DummyProcess THEN <<0>>
           ELSE IF p \in terminated THEN <<0>> ELSE None

Init ==
    /\ \E n \in 0..MaxJobs : \E f \in Jobs(n) :
          /\ input_file_list = Queue(f)
          /\ queue0 = Queue(f)
    /\ num_CPUs \in 0..MaxCPUs
    /\ avail_RAM \in 0..MaxRAM
    /\ processes = <<DummyProcess>>
    /\ RAM_in_use = <<0>>
    /\ pc = "while"
    /\ i = 1
    /\ free_RAM = 0
    /\ recheck = FALSE
    /\ inp_file = NoJob
    /\ proc = None
    /\ terminated = {}
    /\ written = <<>>
    /\ launched = <<>>
    /\ cmds = <<>>
    /\ NoDocs
    /\ NoRun
    /\ NoLine

\* a loop that also waits for the active processes
LoopCondition_Drain(queue, procs) == queue # <<>> \/ procs # <<>>

\* start_simulations: while input_file_list:
LoopCondition(queue, procs) == queue # <<>>

WhileTest ==
    /\ pc = "while"
    /\ pc' = IF LoopCondition(input_file_list, processes) THEN "check_processes" ELSE "done"
    /\ i' = 1
    /\ UNCHANGED <<input_file_list, processes, RAM_in_use, num_CPUs,
                   avail_RAM, free_RAM, recheck, inp_file, proc, terminated,
                   written, launched, cmds, queue0>>
    /\ UNCHANGED <<docVars, runVars, lineVars>>

\* check_processes: one poll of the sweep over processes; the first process
\* found terminated is deleted with its reservation and the function returns
Poll ==
    /\ pc = "check_processes"
    /\ i <= Len(processes)
    /\ IF poll(processes[i]) # None
       THEN /\ processes' = DelAt(processes, i)
            /\ RAM_in_use' = DelAt(RAM_in_use, i)
            /\ pc' = "start_run"
            /\ i' = 1
       ELSE /\ i' = i + 1
            /\ UNCHANGED <<processes, RAM_in_use, pc>>
    /\ UNCHANGED <<input_file_list, num_CPUs, avail_RAM, free_RAM, recheck,
                   inp_file, proc, terminated, written, launched, cmds, queue0>>
    /\ UNCHANGED <<docVars, runVars, lineVars>>

\* check_processes: the sweep found no finished process; sleep and sweep again
Sleep ==
    /\ pc = "check_processes"
    /\ i > Len(processes)
    /\ i' = 1
    /\ UNCHANGED <<input_file_list, processes, RAM_in_use, num_CPUs,
                   avail_RAM, pc, free_RAM, recheck, inp_file, proc,
                   terminated, written, launched, cmds, queue0>>
    /\ UNCHANGED <<docVars, runVars, lineVars>>

\* a free_RAM that forgets the reservations
FreeRAM_Stale(avail, in_use) == avail

\* start_run: free_RAM = avail_RAM - sum(RAM_in_use)
FreeRAM(avail, in_use) == avail - SumSeq(in_use)

StartRun ==
    /\ pc = "start_run"
    /\ free_RAM' = FreeRAM(avail_RAM, RAM_in_use)
    /\ pc' = "admit"
    /\ UNCHANGED <<input_file_list, processes, RAM_in_use, num_CPUs,
                   avail_RAM, i, recheck, inp_file, proc, terminated,
                   written, launched, cmds, queue0>>
    /\ UNCHANGED <<docVars, runVars, lineVars>>

\* a slot test that lets one process too many in
SlotsFull_OffByOne(procs, n) == Len(procs) > n

\* a slot test that stops one process too early
SlotsFull_CountsNext(procs, n) == Len(procs) + 1 >= n

\* a slot test that never lets a process in
SlotsFull_Always(procs, n) == TRUE

\* start_run: if len(processes) >= num_CPUs: break
SlotsFull(procs, n) == Len(procs) >= n

\* start_run: for i, inp_file in enumerate(input_file_list), from index k on;
\* the index the loop breaks at, 0 when it runs to the end
RECURSIVE ScanFrom(_, _, _)
ScanFrom(queue, free, k) ==
    IF k > Len(queue) THEN 0
    ELSE IF queue[k].RAM_req <= free THEN k
    ELSE ScanFrom(queue, free, k + 1)

\* a scan that keeps the last job that fits
RECURSIVE ScanBack(_, _, _)
ScanBack(queue, free, k) ==
    IF k < 1 THEN 0
    ELSE IF queue[k].RAM_req <= free THEN k
    ELSE ScanBack(queue, free, k - 1)

\* a scan that looks at the head of the queue only
FirstFit_HeadOnly(queue, free) ==
    IF queue # <<>> /\ queue[1].RAM_req <= free THEN 1 ELSE 0

\* a scan that takes the head of the queue whatever it needs
FirstFit_Any(queue, free) == IF queue = <<>> THEN 0 ELSE 1

FirstFit_Last(queue, free) == ScanBack(queue, free, Len(queue))

FirstFit(queue, free) == ScanFrom(queue, free, 1)

\* start_run: one pass of its while True loop, up to input_file_list.pop(i)
Admit ==
    /\ pc = "admit"
    /\ IF SlotsFull(processes, num_CPUs)
       THEN /\ pc' = "while"
            /\ recheck' = FALSE
            /\ UNCHANGED <<input_file_list, inp_file>>
       ELSE LET k == FirstFit(input_file_list, free_RAM) IN
            IF k = 0
            THEN /\ pc' = "while"
                 /\ recheck' = FALSE
                 /\ UNCHANGED <<input_file_list, inp_file>>
            ELSE /\ inp_file' = input_file_list[k]
                 /\ input_file_list' = DelAt(input_file_list, k)
                 /\ recheck' = FALSE
                 /\ pc' = "write"
    /\ UNCHANGED <<processes, RAM_in_use, num_CPUs, avail_RAM, i, free_RAM,
                   proc, terminated, written, launched, cmds, queue0>>
    /\ UNCHANGED <<docVars, runVars, lineVars>>

\* start_run: inp_file.write_inp_file() on the document of the job; a
\* queue of bare jobs has no documents and the job says whether its names
\* resolve
WriteOutcome(h, list, job) ==
    IF list = <<>>
    THEN [heap |-> h, docs |-> list,
          raised |-> IF job.resolves THEN "None" ELSE "KeyError",
          file |-> <<>>]
    ELSE LET Outcome(r) ==
                 [heap |-> r.heap,
                  docs |-> [list EXCEPT ![job.id + 1] = r.doc],
                  raised |-> r.raised,
                  file |-> r.file]
         IN  Outcome(write_inp_file(h, list[job.id + 1]))

\* start_run: inp_file.write_inp_file(); KeyError leaves start_simulations
WriteInpFile ==
    /\ pc = "write"
    /\ \E w \in {WriteOutcome(heap, docs, inp_file)} :
           /\ heap' = w.heap
           /\ docs' = w.docs
           /\ raised' = w.raised
           /\ files' = files \o w.file
           /\ IF w.raised = "None"
              THEN /\ written' = Append(written, inp_file.id)
                   /\ pc' = "launch"
              ELSE /\ pc' = "raised"
                   /\ UNCHANGED written
    /\ UNCHANGED <<input_file_list, processes, RAM_in_use, num_CPUs,
                   avail_RAM, i, free_RAM, recheck, inp_file, proc,
                   terminated, launched, cmds, queue0>>
    /\ UNCHANGED <<target, nops, sim_inputs, runVars, lineVars>>

\* a command with the two parts the other way round
cmd_PathFirst(h, doc) ==
    doc.outfile_name \o <<" ">> \o h[DictGet(doc.arg_dict, EXE_FILE)].value

\* start_run: cmd = '{0} {1}'.format(exe_file, inp_file.outfile_name)
cmd(h, doc) ==
    h[DictGet(doc.arg_dict, EXE_FILE)].value \o <<" ">> \o doc.outfile_name

\* start_run: the command of the job; a bare job has no document
CommandOf(h, list, job) ==
    IF list = <<>> THEN None ELSE cmd(h, list[job.id + 1])

\* start_run: Popen(cmd)
Launch ==
    /\ pc = "launch"
    /\ proc' = <<inp_file.id>>
    /\ launched' = Append(launched, inp_file.id)
    /\ cmds' = Append(cmds, CommandOf(heap, docs, inp_file))
    /\ pc' = "reserve"
    /\ UNCHANGED <<input_file_list, processes, RAM_in_use, num_CPUs,
                   avail_RAM, i, free_RAM, recheck, inp_file, terminated,
                   written, queue0>>
    /\ UNCHANGED <<docVars, runVars, lineVars>>

\* a launch that reserves nothing
Reserved_Nothing(in_use, job) == in_use

\* start_run: processes.append(...); RAM_in_use.append(inp_file.RAM_req)
Reserved(in_use, job) == Append(in_use, job.RAM_req)

\* start_run: the appends, free_RAM recomputed, recheck = True, break
Reserve ==
    /\ pc = "reserve"
    /\ processes' = Append(processes, proc[1])
    /\ RAM_in_use' = Reserved(RAM_in_use, inp_file)
    /\ free_RAM' = FreeRAM(avail_RAM, RAM_in_use')
    /\ recheck' = TRUE
    /\ proc' = None
    /\ pc' = "admit"
    /\ UNCHANGED <<input_file_list, num_CPUs, avail_RAM, i, inp_file,
                   terminated, written, launched, cmds, queue0>>
    /\ UNCHANGED <<docVars, runVars, lineVars>>

\* a launched process terminates; the scheduler learns of it only by poll
Terminate(p) ==
    /\ p \in Range(launched)
    /\ p \notin terminated
    /\ terminated' = terminated \cup {p}
    /\ UNCHANGED <<input_file_list, processes, RAM_in_use, num_CPUs,
                   avail_RAM, pc, i, free_RAM, recheck, inp_file, proc,
                   written, launched, cmds, queue0>>
    /\ UNCHANGED <<docVars, runVars, lineVars>>

SchedStep ==
    \/ WhileTest
    \/ Poll
    \/ Sleep
    \/ StartRun
    \/ Admit
    \/ WriteInpFile
    \/ Launch
    \/ Reserve

Next ==
    \/ SchedStep
    \/ \E p \in 1..MaxJobs : Terminate(p)

Spec == Init /\ [][Next]_vars

\* The scheduler is one running thread, so its next step is always taken;
\* that each launched process terminates is the premise of the termination
\* claim.
FairSpec ==
    /\ Spec
    /\ WF_vars(SchedStep)
    /\ \A p \in 1..MaxJobs : WF_vars(Terminate(p))

(***************************************************************************)
(* Properties of the scheduler.                                            *)
(***************************************************************************)
RealProcesses == SelectSeq(processes, LAMBDA p : p # DummyProcess)

Running == {p \in Range(RealProcesses) : p \notin terminated}

AllResolve == \A k \in DOMAIN queue0 : queue0[k].resolves

AllFitBudget == \A k \in DOMAIN queue0 : queue0[k].RAM_req <= avail_RAM

Ids(n) == [k \in 1..n |-> k]

IsPrefix(s, t) == Len(s) <= Len(t) /\ \A k \in DOMAIN s : s[k] = t[k]

\* C1: in every state of start_simulations the sum of RAM_in_use is at most
\* avail_RAM.
C1_MemoryWithinBudget == SumSeq(RAM_in_use) <= avail_RAM

\* the budget is used up by two running processes while a job still waits
C1_Witness ==
    /\ Len(RealProcesses) = 2
    /\ SumSeq(RAM_in_use) = avail_RAM
    /\ input_file_list # <<>>
    /\ pc = "check_processes"

\* C2 as stated: in every state, from the initial one on, the process list
\* has at most num_CPUs entries.
C2_Original == Len(processes) <= num_CPUs

\* C2 amended: the process list never holds more than num_CPUs launched
\* processes, and with num_CPUs >= 1 it never has more than num_CPUs entries,
\* the placeholder included.
C2_SlotLimit ==
    /\ Len(RealProcesses) <= num_CPUs
    /\ num_CPUs >= 1 => Len(processes) <= num_CPUs

\* every slot is taken by a launched process while a job that fits waits
C2_Witness ==
    /\ num_CPUs >= 2
    /\ Len(RealProcesses) = num_CPUs
    /\ pc = "admit"
    /\ FirstFit(input_file_list, avail_RAM - SumSeq(RAM_in_use)) # 0

Premise3 == num_CPUs >= 1 /\ AllFitBudget

Returned == pc = "done" /\ input_file_list = <<>>

Scenario4 ==
    /\ num_CPUs = 4
    /\ Len(queue0) = 3
    /\ \A k \in DOMAIN queue0 : queue0[k].RAM_req = avail_RAM

\* C4: with the budget of one job, num_CPUs = 4 and three equal jobs, at most
\* one launched process is in the list at any time, and a job is admitted
\* only when every process launched before it has been polled as finished
\* and removed.
C4_OneAtATime ==
    Scenario4 =>
        /\ Len(RealProcesses) <= 1
        /\ pc \in {"write", "launch", "reserve"} =>
              \A p \in Range(launched) \ {inp_file.id} :
                  p \in terminated /\ p \notin Range(processes)

\* the third job is admitted after the first two have finished
C4_Witness ==
    /\ Scenario4
    /\ pc = "reserve"
    /\ Len(launched) = 3
    /\ Cardinality(terminated) = 2

\* C5: the job start_run removes from the queue and launches is the first
\* one in queue order whose RAM_req is at most avail_RAM minus the sum of
\* RAM_in_use, and the process launched next is that job's.
C5_FirstThatFits ==
    [][/\ (pc = "admit" /\ pc' = "write") =>
            LET free == avail_RAM - SumSeq(RAM_in_use) IN
            \E k \in DOMAIN input_file_list :
                /\ inp_file' = input_file_list[k]
                /\ input_file_list[k].RAM_req <= free
                /\ \A j \in 1..(k - 1) : input_file_list[j].RAM_req > free
                /\ input_file_list' = DelAt(input_file_list, k)
       /\ launched' # launched =>
            /\ pc = "launch"
            /\ launched' = Append(launched, inp_file.id)
            /\ inp_file.id \notin {input_file_list[k].id : k \in DOMAIN input_file_list}
      ]_vars

\* a later, smaller job is taken ahead of an earlier job that does not fit
C5_Witness ==
    /\ pc = "launch"
    /\ \E k \in DOMAIN input_file_list :
          /\ input_file_list[k].id < inp_file.id
          /\ input_file_list[k].RAM_req > free_RAM

Premise6 ==
    /\ Len(queue0) <= num_CPUs
    /\ SumSeq([k \in DOMAIN queue0 |-> queue0[k].RAM_req]) <= avail_RAM

Stopped == pc \in {"done", "raised"}

C7_ReturnsOnEmptyQueue ==
    /\ input_file_list = <<>> => pc \notin {"check_processes", "start_run"}
    /\ (pc = "done" /\ queue0 # <<>>) =>
          /\ launched # <<>>
          /\ launched[Len(launched)] \in Range(processes)

\* the function has returned with two processes still running and listed
C7_Witness ==
    /\ pc = "done"
    /\ Cardinality(Running) = 2

(***************************************************************************)
(* Calls on documents: a template is parsed, then documents are cloned and *)
(* updated in any order.  The texts the calls are made with:               *)
(***************************************************************************)
MaxDocs == 2
MaxOps == 3

\* 'EXE-FILE: sim'
LineEXE == <<"E", "X", "E", "-", "F", "I", "L", "E", ":", " ", "s", "i", "m">>
\* 'APER-MAP: m'
LineAPER == <<"A", "P", "E", "R", "-", "M", "A", "P", ":", " ", "m">>
\* 'P: 1'
LineP == <<"P", ":", " ", "1">>
\* 'P: 3'
LineP3 == <<"P", ":", " ", "3">>
\* ';Q: 2'
LineQ == <<";", "Q", ":", " ", "2">>
\* 'OUT: o'
LineOUT == <<"O", "U", "T", ":", " ", "o">>
\* 'K: ', a colon and a blank with nothing after them
LineK == <<"K", ":", " ">>

Templates ==
    {<<LineEXE, LineAPER, LineP, LineQ, LineOUT>>,
     <<LineEXE, LineK, LineP, LineP3>>,
     <<LineP>>}

\* {'OUT': 'o-%P%'}
FormatsOUT == <<[key |-> <<"O", "U", "T">>, val |-> <<"o", "-", "%", "P", "%">>]>>
\* {'input_file': 'i%P%'}
FormatsIP == <<[key |-> input_file, val |-> <<"i", "%", "P", "%">>]>>
\* {'input_file': 'in%q%', 'SUM': 's'}
FormatsSUM == <<[key |-> <<"i", "n", "p", "u", "t", "_", "f", "i", "l", "e">>, val |-> <<"i", "n", "%", "q", "%">>],
      [key |-> <<"S", "U", "M">>, val |-> <<"s">>]>>

\* {'K': 'x', 'SUM': 's'}
FormatsKSUM == <<[key |-> <<"K">>, val |-> <<"x">>],
                 [key |-> <<"S", "U", "M">>, val |-> <<"s">>]>>

Formats == {FormatsOUT, FormatsSUM, FormatsKSUM}

\* update_value('7'), update_value('a b', uncomment=False)
ValueChoices == {[new_value |-> <<"7">>, uncomment |-> TRUE],
                 [new_value |-> <<"a", " ", "b">>, uncomment |-> FALSE]}

\* {'P': '7'}, {'Q': '9', 'q': 'x'}, {'P': '5', 'K': 'v'}
ArgChoices ==
    {<<[key |-> <<"P">>, val |-> <<"7">>]>>,
     <<[key |-> <<"Q">>, val |-> <<"9">>], [key |-> <<"q">>, val |-> <<"x">>]>>,
     <<[key |-> <<"P">>, val |-> <<"5">>], [key |-> <<"K">>, val |-> <<"v">>]>>}

\* no call of start_simulations has been made; the program is at p
SchedAt(p) ==
    /\ input_file_list = <<>>
    /\ queue0 = <<>>
    /\ num_CPUs = 0
    /\ avail_RAM = 0
    /\ processes = <<>>
    /\ RAM_in_use = <<>>
    /\ pc = p
    /\ i = 1
    /\ free_RAM = 0
    /\ recheck = FALSE
    /\ inp_file = NoJob
    /\ proc = None
    /\ terminated = {}
    /\ written = <<>>
    /\ launched = <<>>
    /\ cmds = <<>>

SchedIdle == SchedAt("idle")

\* InputFile(infile): __init__ with filename_formats=None, then
\* parse_input_file; SystemExit leaves no document
DocInit ==
    /\ SchedIdle
    /\ \E content_arr \in Templates :
          LET r == parse_input_file(<<>>, InputFile(<<>>), content_arr) IN
          /\ heap = r.heap
          /\ docs = IF r.raised = "None" THEN <<r.doc>> ELSE <<>>
          /\ raised = r.raised
    /\ target = 1
    /\ nops = 0
    /\ sim_inputs = <<>>
    /\ files = <<>>
    /\ NoRun
    /\ NoLine

\* docs[d].clone(file_formats)
DocClone(d, file_formats) ==
    /\ Len(docs) < MaxDocs
    /\ nops < MaxOps
    /\ LET r == clone(heap, docs[d], file_formats) IN
          /\ heap' = r.heap
          /\ docs' = Append(docs, r.doc)
    /\ raised' = "None"
    /\ target' = Len(docs) + 1
    /\ nops' = nops + 1
    /\ UNCHANGED <<sim_inputs, files, schedVars, runVars, lineVars>>

\* docs[d].arg_dict[key].update_value(new_value, uncomment)
DocUpdateValue(d, key, new_value, uncomment) ==
    /\ nops < MaxOps
    /\ DictHas(docs[d].arg_dict, key)
    /\ LET addr == DictGet(docs[d].arg_dict, key)
           r == update_value(heap[addr], new_value, uncomment)
       IN  /\ heap' = [heap EXCEPT ![addr] = r.arg]
           /\ raised' = r.raised
    /\ target' = d
    /\ nops' = nops + 1
    /\ UNCHANGED docs
    /\ UNCHANGED <<sim_inputs, files, schedVars, runVars, lineVars>>

\* docs[d].update_args(args)
DocUpdateArgs(d, args) ==
    /\ nops < MaxOps
    /\ LET r == update_args(heap, docs[d], args) IN
          /\ heap' = r.heap
          /\ docs' = [docs EXCEPT ![d] = r.doc]
          /\ raised' = r.raised
    /\ target' = d
    /\ nops' = nops + 1
    /\ UNCHANGED <<sim_inputs, files, schedVars, runVars, lineVars>>

\* docs[d].construct_file_names()
DocConstructFileNames(d) ==
    /\ nops < MaxOps
    /\ LET r == construct_file_names(heap, docs[d]) IN
          /\ heap' = r.heap
          /\ docs' = [docs EXCEPT ![d] = r.doc]
          /\ raised' = r.raised
    /\ target' = d
    /\ nops' = nops + 1
    /\ UNCHANGED <<sim_inputs, files, schedVars, runVars, lineVars>>

DocNext ==
    \/ \E d \in DOMAIN docs, f \in {<<>>} \cup {<<g>> : g \in Formats} :
          DocClone(d, f)
    \/ \E d \in DOMAIN docs : \E key \in Range(docs[d].arg_order) :
          \E c \in ValueChoices :
              DocUpdateValue(d, key, c.new_value, c.uncomment)
    \/ \E d \in DOMAIN docs, args \in ArgChoices : DocUpdateArgs(d, args)
    \/ \E d \in DOMAIN docs : DocConstructFileNames(d)

DocSpec == DocInit /\ [][DocNext]_vars

(***************************************************************************)
(* Properties of documents.                                                *)
(***************************************************************************)
\* what a document shows: its lines by keyword, its keyword order list and
\* its filename-template mapping
View(h, doc) ==
    [lines |-> [k \in DOMAIN doc.arg_dict |->
                   [key |-> doc.arg_dict[k].key, val |-> h[doc.arg_dict[k].val]]],
     arg_order |-> doc.arg_order,
     filename_formats |-> doc.filename_formats]

\* C10: a call of update_value, update_args or construct_file_names on one
\* document, and a clone made of it, leave every line (value, text, flag),
\* the keyword order list and the filename-template mapping of every other
\* document as they were: a clone and its source do not affect each other.
C10_CloneIsolation ==
    [][\A e \in DOMAIN docs :
          e # target' => View(heap', docs'[e]) = View(heap, docs[e])]_vars

\* a line of a clone has been given a value its source's line does not have
C10_Witness ==
    /\ Len(docs) >= 2
    /\ target = 2
    /\ nops >= 2
    /\ \E k \in DOMAIN docs[1].arg_dict :
          heap[docs[2].arg_dict[k].val].value # heap[docs[1].arg_dict[k].val].value

(***************************************************************************)
(* Calls of combine_run_args on a parsed template and a list of grid       *)
(* specifications.  Memory is in thousandths of a GB.                      *)
(***************************************************************************)
MaxGrids == 2

\* DataField(fname): the shape of the data map read from the file fname
DataField(fname) ==
    CASE fname = <<"m">> -> [nx |-> 100, nz |-> 100]
      [] fname = <<"c">> -> [nx |-> 200, nz |-> 100]
      [] fname = <<"d">> -> [nx |-> 100, nz |-> 200]
      [] fname = <<"e">> -> [nx |-> 200, nz |-> 200]
      [] fname = <<"f">> -> [nx |-> 500, nz |-> 100]
      [] fname = <<"g">> -> [nx |-> 200, nz |-> 500]
      [] fname = <<"h">> -> [nx |-> 500, nz |-> 500]
      [] fname = <<"n">> -> [nx |-> 1000, nz |-> 500]
      [] OTHER -> [nx |-> 1000, nz |-> 1000]

\* an estimate made from the number of columns alone
RAM_estimate_Columns(field) == field.nx

\* estimate_req_RAM: 0.00505193 * ((nx * nz)**2)**0.72578813 * 2**(-20) GB,
\* in thousandths of a GB, for the shapes of DataField
RAM_estimate(field) ==
    CASE field.nx * field.nz = 10000 -> 3
      [] field.nx * field.nz = 20000 -> 8
      [] field.nx * field.nz = 40000 -> 23
      [] field.nx * field.nz = 50000 -> 31
      [] field.nx * field.nz = 100000 -> 87
      [] field.nx * field.nz = 250000 -> 329
      [] field.nx * field.nz = 500000 -> 902
      [] OTHER -> 2467

\* the aperture map files
ApertureMaps == {<<"m">>, <<"n">>, <<"b">>}

\* run_params: {}, {'P': ['1', '2']}, {'P': ['1', '2'], 'q': ['x', 'y']},
\* {'P': ['1', '2'], 'Q': ['5'], 'q': ['x', 'y', 'z']}, {'K': ['v']},
\* {'P': []}
RunParams ==
    {<<>>,
     <<[key |-> <<"P">>, val |-> << <<"1">>, <<"2">> >>]>>,
     <<[key |-> <<"P">>, val |-> << <<"1">>, <<"2">> >>],
       [key |-> <<"q">>, val |-> << <<"x">>, <<"y">> >>]>>,
     <<[key |-> <<"P">>, val |-> << <<"1">>, <<"2">> >>],
       [key |-> <<"Q">>, val |-> << <<"5">> >>],
       [key |-> <<"q">>, val |-> << <<"x">>, <<"y">>, <<"z">> >>]>>,
     <<[key |-> <<"K">>, val |-> << <<"v">> >>]>>,
     <<[key |-> <<"P">>, val |-> <<>>]>>}

\* the grid specifications, with RAM_req as bulk_run assigns it
GridSpecs ==
    {[aperture_map |-> m, run_params |-> rp, filename_formats |-> f,
      RAM_req |-> RAM_estimate(DataField(m))] :
        m \in {<<"m">>, <<"n">>}, rp \in RunParams, f \in {<<>>, FormatsOUT}}

SimInputs(specs) == UNION {[1..n -> specs] : n \in 0..MaxGrids}

\* a template with an EXE-FILE line has been parsed into docs[1]
CombInit ==
    /\ SchedAt("combine")
    /\ \E content_arr \in {t \in Templates : LineEXE \in Range(t)} :
          LET r == parse_input_file(<<>>, InputFile(<<>>), content_arr) IN
          /\ heap = r.heap
          /\ docs = <<r.doc>>
          /\ raised = r.raised
    /\ target = 0
    /\ nops = 0
    /\ sim_inputs \in SimInputs(GridSpecs)
    /\ files = <<>>
    /\ NoRun
    /\ NoLine

\* input_file_list = combine_run_args(sim_inputs, init_input_file); the
\* documents returned are docs[2], docs[3], ...
Combine ==
    /\ pc = "combine"
    /\ \E r \in {combine_run_args(heap, sim_inputs, docs[1])} :
          /\ heap' = r.heap
          /\ raised' = r.raised
          /\ docs' = IF r.raised = "None" THEN docs \o r.list ELSE docs
          /\ pc' = IF r.raised = "None" THEN "combined" ELSE "raised"
    /\ UNCHANGED <<target, nops, sim_inputs, files, runVars, lineVars>>
    /\ UNCHANGED <<input_file_list, processes, RAM_in_use, num_CPUs, avail_RAM,
                   i, free_RAM, recheck, inp_file, proc, terminated, written,
                   launched, cmds, queue0>>

CombNext == Combine

CombSpec == CombInit /\ [][CombNext]_vars

(***************************************************************************)
(* Properties of combine_run_args.                                         *)
(***************************************************************************)
RECURSIVE Times(_)
Times(s) == IF s = <<>> THEN 1 ELSE Head(s) * Times(Tail(s))

\* the lengths of the value lists of a grid's parameters
Lengths(map_args) ==
    [p \in DOMAIN map_args.run_params |-> Len(map_args.run_params[p].val)]

\* the size of the Cartesian product of a grid's value lists
NComb(map_args) == Times(Lengths(map_args))

\* the number of combinations in which parameter p keeps its value while the
\* parameters after it run through theirs
Stride(map_args, p) ==
    Times(SubSeq(Lengths(map_args), p + 1, Len(map_args.run_params)))

\* the number of documents of the grids before the g-th
Offset(g) == SumSeq([e \in 1..(g - 1) |-> NComb(sim_inputs[e])])

\* the value a document holds for a parameter: the value of its line of
\* that keyword, or else its filename_format_args entry
Assigned(h, doc, key) ==
    IF DictHas(doc.arg_dict, key) THEN h[DictGet(doc.arg_dict, key)].value
    ELSE IF DictHas(doc.filename_format_args, key)
         THEN DictGet(doc.filename_format_args, key)
         ELSE NONE

\* the documents are those of the grids in input order, and within a grid
\* the j-th document holds the j-th element of the product in lexicographic
\* order, the last parameter varying fastest
ProductOrder(list) ==
    /\ Len(list) = SumSeq([g \in DOMAIN sim_inputs |-> NComb(sim_inputs[g])])
    /\ \A g \in DOMAIN sim_inputs : \A j \in 1..NComb(sim_inputs[g]) :
          LET map_args == sim_inputs[g]
              doc == list[Offset(g) + j]
          IN  /\ Assigned(heap, doc, APER_MAP) = map_args.aperture_map
              /\ doc.RAM_req = map_args.RAM_req
              /\ \A p \in DOMAIN map_args.run_params :
                    LET values == map_args.run_params[p].val IN
                    Assigned(heap, doc, map_args.run_params[p].key) =
                        values[(((j - 1) \div Stride(map_args, p))
                                % Len(values)) + 1]

\* C9: combine_run_args returns, for each grid, one document per element of
\* the Cartesian product of the grid's value lists, grids in input order
\* outermost and within a grid the combinations in lexicographic product
\* order, the last parameter varying fastest.
C9_ProductOrder ==
    pc \in {"combined", "raised"} =>
        /\ raised = "None"
        /\ ProductOrder(Tail(docs))

\* what holds of the calls that return
C9_ProductOrderOnReturn ==
    pc = "combined" => ProductOrder(Tail(docs))

\* two grids have been expanded, the second into six documents of three
\* parameters
C9_Witness ==
    /\ pc = "combined"
    /\ Len(sim_inputs) = 2
    /\ NComb(sim_inputs[1]) >= 2
    /\ Len(sim_inputs[2].run_params) = 3
    /\ Len(docs) = 1 + NComb(sim_inputs[1]) + 6

\* a run parameter names a line that ends in a colon and a blank
C9_Raised ==
    /\ pc = "raised"
    /\ raised = "IndexError"

(***************************************************************************)
(* The drivers bulk_run and dry_run: estimation, the template, expansion,  *)
(* then the scheduler (bulk_run) or the writing of every input file        *)
(* (dry_run).                                                              *)
(***************************************************************************)
\* avail_RAM = sys_RAM * 0.90, in thousandths of a GB
Budget(sys) == 900 * sys

\* the sys_RAM and num_CPUs the drivers are called with
SysRAMs == {0, 1, 3}
BulkCPUs == {0, 1, 2}

\* the run_params and filename_formats of a grid: one run as the template
\* has it, two runs with P of '1' and '2', one run declaring the output name
\* SUM, which no template has a line for
BulkParams ==
    {[run_params |-> <<>>, filename_formats |-> <<>>],
     [run_params |-> <<[key |-> <<"P">>, val |-> << <<"1">>, <<"2">> >>]>>,
      filename_formats |-> FormatsIP],
     [run_params |-> <<>>, filename_formats |-> FormatsSUM]}

\* the grid specifications the drivers are called with; RAM_req is not set
BulkGrids ==
    {[aperture_map |-> m, run_params |-> a.run_params,
      filename_formats |-> a.filename_formats, RAM_req |-> 0] :
        m \in ApertureMaps, a \in BulkParams}

\* bulk_run or dry_run has been entered and avail_RAM computed
BulkInit ==
    /\ mode \in {"bulk_run", "dry_run"}
    /\ sys_RAM \in SysRAMs
    /\ num_CPUs \in BulkCPUs
    /\ avail_RAM = Budget(sys_RAM)
    /\ sim_inputs \in SimInputs(BulkGrids)
    /\ files = <<>>
    /\ init_infile \in {t \in Templates : LineK \notin Range(t)}
    /\ RAM_per_map = <<>>
    /\ error = FALSE
    /\ parsed = FALSE
    /\ pc = "estimate"
    /\ input_file_list = <<>>
    /\ queue0 = <<>>
    /\ processes = <<>>
    /\ RAM_in_use = <<>>
    /\ i = 1
    /\ free_RAM = 0
    /\ recheck = FALSE
    /\ inp_file = NoJob
    /\ proc = None
    /\ terminated = {}
    /\ written = <<>>
    /\ launched = <<>>
    /\ cmds = <<>>
    /\ heap = <<>>
    /\ docs = <<>>
    /\ raised = "None"
    /\ target = 0
    /\ nops = 0
    /\ NoLine

\* an error flag that only the last map decides
ErrorFlag_Last(flag, RAM, avail) == RAM > avail

\* estimate_req_RAM: if RAM > avail_RAM: error = True
ErrorFlag(flag, RAM, avail) == flag \/ RAM > avail

\* estimate_req_RAM: one turn of the loop over input_maps
EstimateMap ==
    /\ pc = "estimate"
    /\ Len(RAM_per_map) < Len(sim_inputs)
    /\ LET fname == sim_inputs[Len(RAM_per_map) + 1].aperture_map
           RAM == RAM_estimate(DataField(fname))
       IN  /\ RAM_per_map' = Append(RAM_per_map, RAM)
           /\ error' = ErrorFlag(error, RAM, avail_RAM)
    /\ UNCHANGED <<mode, sys_RAM, init_infile, parsed>>
    /\ UNCHANGED <<schedVars, docVars, lineVars>>

\* an assignment that gives every grid the first estimate
AssignRAM_First(inputs, RAMs) ==
    [g \in DOMAIN inputs |-> [inputs[g] EXCEPT !.RAM_req = RAMs[1]]]

\* for i, RAM in enumerate(RAM_per_map): sim_inputs[i]['RAM_req'] = RAM
AssignRAM(inputs, RAMs) ==
    [g \in DOMAIN inputs |-> [inputs[g] EXCEPT !.RAM_req = RAMs[g]]]

\* estimate_req_RAM after its loop: raise SystemExit if error, else return
\* RAM_per_map, which the driver stores as each grid's RAM_req
EstimateReturn ==
    /\ pc = "estimate"
    /\ Len(RAM_per_map) = Len(sim_inputs)
    /\ IF error
       THEN /\ raised' = "SystemExit"
            /\ pc' = "raised"
            /\ UNCHANGED sim_inputs
       ELSE /\ sim_inputs' = AssignRAM(sim_inputs, RAM_per_map)
            /\ pc' = "init_input_file"
            /\ UNCHANGED raised
    /\ UNCHANGED <<heap, docs, target, nops, files, runVars, lineVars>>
    /\ UNCHANGED <<input_file_list, processes, RAM_in_use, num_CPUs, avail_RAM,
                   i, free_RAM, recheck, inp_file, proc, terminated, written,
                   launched, cmds, queue0>>

\* init_input_file = InputFile(init_infile)
InitInputFile ==
    /\ pc = "init_input_file"
    /\ parsed' = TRUE
    /\ LET r == parse_input_file(heap, InputFile(<<>>), init_infile) IN
          /\ heap' = r.heap
          /\ docs' = IF r.raised = "None" THEN <<r.doc>> ELSE docs
          /\ raised' = r.raised
          /\ pc' = IF r.raised = "None" THEN "combine" ELSE "raised"
    /\ UNCHANGED <<target, nops, sim_inputs, files, lineVars>>
    /\ UNCHANGED <<mode, sys_RAM, init_infile, RAM_per_map, error>>
    /\ UNCHANGED <<input_file_list, processes, RAM_in_use, num_CPUs, avail_RAM,
                   i, free_RAM, recheck, inp_file, proc, terminated, written,
                   launched, cmds, queue0>>

\* the job the scheduler sees in the k-th document of the list: its RAM_req
\* and whether write_inp_file succeeds on it
JobOf(h, list, k) ==
    [id |-> k,
     RAM_req |-> list[k].RAM_req,
     resolves |-> write_inp_file(h, list[k]).raised = "None"]

\* bulk_run: sleep(start_delay), then start_simulations(input_file_list,
\* num_CPUs, avail_RAM) up to its loop
StartSimulations ==
    /\ pc = "combined"
    /\ mode = "bulk_run"
    /\ input_file_list' = [k \in 1..(Len(docs) - 1) |-> JobOf(heap, Tail(docs), k)]
    /\ queue0' = input_file_list'
    /\ processes' = <<DummyProcess>>
    /\ RAM_in_use' = <<0>>
    /\ pc' = "while"
    /\ UNCHANGED <<num_CPUs, avail_RAM, i, free_RAM, recheck, inp_file, proc,
                   terminated, written, launched, cmds>>
    /\ UNCHANGED <<docVars, runVars, lineVars>>

\* a loop that ends after its first turn
DryLoopDone_Early(done, list) == done # <<>> \/ list = <<>>

\* dry_run: for inp_file in input_file_list: the loop has gone through list
DryLoopDone(done, list) == Len(done) = Len(list)

\* dry_run: inp_file.write_inp_file() for the next document of the list
DryWrite ==
    /\ pc = "combined"
    /\ mode = "dry_run"
    /\ ~DryLoopDone(written, Tail(docs))
    /\ \E k \in {Len(written) + 1} :
       \E r \in {write_inp_file(heap, docs[k + 1])} :
           /\ heap' = r.heap
           /\ docs' = [docs EXCEPT ![k + 1] = r.doc]
           /\ raised' = r.raised
           /\ files' = files \o r.file
           /\ IF r.raised = "None"
              THEN /\ written' = Append(written, k)
                   /\ UNCHANGED pc
              ELSE /\ pc' = "raised"
                   /\ UNCHANGED written
    /\ UNCHANGED <<target, nops, sim_inputs, runVars, lineVars>>
    /\ UNCHANGED <<input_file_list, processes, RAM_in_use, num_CPUs, avail_RAM,
                   i, free_RAM, recheck, inp_file, proc, terminated, launched, cmds,
                   queue0>>

\* dry_run: return after the last document
DryReturn ==
    /\ pc = "combined"
    /\ mode = "dry_run"
    /\ DryLoopDone(written, Tail(docs))
    /\ pc' = "done"
    /\ UNCHANGED <<input_file_list, processes, RAM_in_use, num_CPUs, avail_RAM,
                   i, free_RAM, recheck, inp_file, proc, terminated, written,
                   launched, cmds, queue0>>
    /\ UNCHANGED <<docVars, runVars, lineVars>>

BulkNext ==
    \/ EstimateMap
    \/ EstimateReturn
    \/ InitInputFile
    \/ Combine
    \/ StartSimulations
    \/ DryWrite
    \/ DryReturn
    \/ SchedStep
    \/ \E p \in DOMAIN queue0 : Terminate(p)

BulkSpec == BulkInit /\ [][BulkNext]_vars

(***************************************************************************)
(* Properties of the drivers.                                              *)
(***************************************************************************)
\* the estimate of some grid exceeds 0.9 x sys_RAM
OverBudget ==
    \E g \in DOMAIN sim_inputs :
        RAM_estimate(DataField(sim_inputs[g].aperture_map)) > Budget(sys_RAM)

\* C8: when the estimate of any grid exceeds the budget 0.9 x sys_RAM,
\* bulk_run and dry_run get no further than estimate_req_RAM, which ends
\* by raising SystemExit: the template is never parsed, no input file is
\* written, no process is launched and no job of any grid is scheduled.
C8_AbortsBeforeAnything ==
    OverBudget =>
        /\ pc \in {"estimate", "raised"}
        /\ pc = "raised" => raised = "SystemExit"
        /\ pc = "estimate" /\ Len(RAM_per_map) = Len(sim_inputs) => error
        /\ ~parsed
        /\ docs = <<>>
        /\ written = <<>>
        /\ launched = <<>>
        /\ input_file_list = <<>>
        /\ processes = <<>>

\* bulk_run has aborted on a batch whose first grid exceeds the budget and
\* whose second does not
C8_Witness ==
    /\ mode = "bulk_run"
    /\ pc = "raised"
    /\ raised = "SystemExit"
    /\ Len(sim_inputs) = 2
    /\ RAM_per_map[1] > avail_RAM
    /\ RAM_per_map[2] <= avail_RAM
    /\ OverBudget

(***************************************************************************)
(* Calls on one line object: it is made of a text, then updated, rendered  *)
(* and the rendering parsed again, in any order.                           *)
(***************************************************************************)
MaxLen == 6

\* the characters of the texts
Alphabet == {";", "K", ":", " "}

\* the texts a line object is made of
Texts == UNION {[1..n -> Alphabet] : n \in 0..MaxLen}

NoCall == [op |-> "ArgInput", new_value |-> <<>>, uncomment |-> FALSE]

\* line_objs[1] = ArgInput(line_text)
LineInit ==
    /\ SchedAt("idle")
    /\ NoDocs
    /\ NoRun
    /\ line_text \in Texts
    /\ line_objs = <<ArgInput(line_text)>>
    /\ line_calls = <<NoCall>>

\* line_objs[1].update_value(new_value, uncomment)
LineUpdateValue(new_value, uncomment) ==
    /\ LET r == update_value(line_objs[1], new_value, uncomment) IN
          /\ line_objs' = [line_objs EXCEPT ![1] = r.arg]
          /\ raised' = r.raised
    /\ line_calls' = <<[op |-> "update_value", new_value |-> new_value,
                        uncomment |-> uncomment]>>
    /\ UNCHANGED <<line_text, heap, docs, target, nops, sim_inputs, files>>
    /\ UNCHANGED <<schedVars, runVars>>

\* ArgInput(line_objs[1].output_line()), kept as line_objs[2]
LineReparse ==
    /\ line_objs' = <<line_objs[1], ArgInput(output_line(line_objs[1]))>>
    /\ line_calls' = <<[op |-> "output_line", new_value |-> <<>>,
                        uncomment |-> FALSE]>>
    /\ raised' = "None"
    /\ UNCHANGED <<line_text, heap, docs, target, nops, sim_inputs, files>>
    /\ UNCHANGED <<schedVars, runVars>>

LineNext ==
    \/ \E c \in ValueChoices : LineUpdateValue(c.new_value, c.uncomment)
    \/ LineReparse

LineSpec == LineInit /\ [][LineNext]_vars

(***************************************************************************)
(* Properties of line objects.                                             *)
(***************************************************************************)
\* the text has a token that ends with a colon, whitespace after it and a
\* token after that
KeyValuePattern(t) ==
    \E p \in 2..(Len(t) - 2) :
        /\ t[p] = ":"
        /\ t[p - 1] \notin Whitespace
        /\ t[p + 1] \in Whitespace
        /\ \E q \in (p + 2)..Len(t) : t[q] \notin Whitespace

\* C11: for every text with a key: value pattern, commented or not, the
\* line object made of the rendered form of the line object made of the
\* text has the keyword, the value, the value-slot index and the disabled
\* flag of the first.
C11_RoundTrip ==
    /\ line_calls[1].op = "output_line"
    /\ line_objs[1] = ArgInput(line_text)
    /\ KeyValuePattern(line_text)
    => /\ line_objs[2].keyword = line_objs[1].keyword
       /\ line_objs[2].value = line_objs[1].value
       /\ line_objs[2].value_index = line_objs[1].value_index
       /\ line_objs[2].commented_out = line_objs[1].commented_out

\* a commented text with two blanks between its key and its value has been
\* parsed, rendered and parsed again
C11_Witness ==
    /\ line_calls[1].op = "output_line"
    /\ line_text = <<";", "K", ":", " ", " ", "K">>
    /\ line_objs[1] = ArgInput(line_text)
    /\ line_objs[1].commented_out
    /\ line_objs[2].value = <<"K">>
    /\ line_objs[2].value_index = 1

\* the step is a call of update_value with the given uncomment
UpdateStep(uncomment) ==
    /\ line_calls'[1].op = "update_value"
    /\ line_calls'[1].uncomment = uncomment

\* C12 as stated: update_value with uncomment=True leaves the disabled flag
\* false, so that the rendered line has no leading semicolon (looked at
\* for the calls that return); update_value with uncomment=False leaves
\* the flag as it was.
C12_Original ==
    [][/\ UpdateStep(TRUE) =>
             /\ ~line_objs'[1].commented_out
             /\ \/ raised' # "None"
                \/ output_line(line_objs'[1]) = <<>>
                \/ Head(output_line(line_objs'[1])) # ";"
       /\ UpdateStep(FALSE) =>
             line_objs'[1].commented_out = line_objs[1].commented_out]_vars

\* C12: update_value with uncomment=True leaves the disabled flag false
\* whatever it was, so that the line is rendered as its own text with no
\* semicolon put before it; update_value with uncomment=False leaves the
\* flag as it was.
C12_FlagCleared ==
    [][/\ UpdateStep(TRUE) =>
             /\ ~line_objs'[1].commented_out
             /\ output_line(line_objs'[1]) = line_objs'[1].line
       /\ UpdateStep(FALSE) =>
             line_objs'[1].commented_out = line_objs[1].commented_out]_vars

\* a commented line has been given the value '7' by the default call and
\* is no longer commented
C12_Witness ==
    /\ line_calls[1] = [op |-> "update_value", new_value |-> <<"7">>,
                        uncomment |-> TRUE]
    /\ line_text = <<";", "K", ":", " ", "K">>
    /\ line_objs[1].value = <<"7">>
    /\ ~line_objs[1].commented_out
    /\ output_line(line_objs[1]) = <<"K", ":", " ", "7">>

(***************************************************************************)
(* InputFile(infile) on template files of a few lines.                     *)
(***************************************************************************)
MaxLines == 3

\* '; EXE-FILE: sim'
LineEXEcommented == <<";", " ">> \o LineEXE
\* 'exe-file: sim'
LineEXElower == <<"e", "x", "e", "-", "f", "i", "l", "e", ":", " ", "s", "i", "m">>
\* 'EXE-FILE'
LineEXEbare == <<"E", "X", "E", "-", "F", "I", "L", "E">>

\* the lines of the files; <<>> is the empty line
FileLines ==
    {LineEXE, LineEXEcommented, LineEXElower, LineEXEbare, LineP, LineP3,
     LineK, <<>>}

\* content.split('\n') of a file: at least one line
Files == UNION {[1..n -> FileLines] : n \in 1..MaxLines}

\* InputFile(init_infile) is about to be called
ParseInit ==
    /\ SchedAt("init_input_file")
    /\ NoDocs
    /\ NoLine
    /\ mode = "none"
    /\ sys_RAM = 0
    /\ init_infile \in Files
    /\ RAM_per_map = <<>>
    /\ error = FALSE
    /\ parsed = FALSE

\* InputFile(infile).write_inp_file(): the parsed document is written as
\* it is
ParseWrite ==
    /\ pc = "combine"
    /\ mode = "none"
    /\ \E r \in {write_inp_file(heap, docs[1])} :
          /\ heap' = r.heap
          /\ docs' = [docs EXCEPT ![1] = r.doc]
          /\ raised' = r.raised
          /\ files' = files \o r.file
          /\ pc' = IF r.raised = "None" THEN "done" ELSE "raised"
    /\ UNCHANGED <<target, nops, sim_inputs, runVars, lineVars>>
    /\ UNCHANGED <<input_file_list, processes, RAM_in_use, num_CPUs, avail_RAM,
                   i, free_RAM, recheck, inp_file, proc, terminated, written,
                   launched, cmds, queue0>>

ParseNext == InitInputFile \/ ParseWrite

ParseSpec == ParseInit /\ [][ParseNext]_vars

(***************************************************************************)
(* Properties of InputFile(infile).                                        *)
(***************************************************************************)
\* some line of the file has the keyword EXE-FILE
HasExeLine(file) ==
    \E k \in DOMAIN file :
        ArgInput(StripAfterSemicolons(file[k])).keyword = EXE_FILE

\* C13: parsing a template with no line of keyword EXE-FILE raises
\* SystemExit and leaves no document; parsing a template with such a line
\* succeeds and gives the document.
C13_ExeFileRequired ==
    (parsed /\ pc # "done") =>
        IF HasExeLine(init_infile)
        THEN /\ raised = "None"
             /\ pc = "combine"
             /\ Len(docs) = 1
             /\ DictHas(docs[1].arg_dict, EXE_FILE)
             /\ Len(docs[1].arg_order) = Len(init_infile)
        ELSE /\ raised = "SystemExit"
             /\ pc = "raised"
             /\ docs = <<>>

\* a file of three lines, one of them 'exe-file: sim', has been refused
C13_Witness ==
    /\ parsed
    /\ raised = "SystemExit"
    /\ Len(init_infile) = 3
    /\ LineEXElower \in Range(init_infile)
    /\ LineP \in Range(init_infile)

\* a file whose only EXE-FILE line is commented has been parsed
C13_WitnessParsed ==
    /\ parsed
    /\ raised = "None"
    /\ LineEXEcommented \in Range(init_infile)
    /\ LineEXE \notin Range(init_infile)
    /\ LineEXEbare \notin Range(init_infile)
    /\ heap[DictGet(docs[1].arg_dict, EXE_FILE)].commented_out

(***************************************************************************)
(* Properties of the drivers: the memory requirement of a job.             *)
(***************************************************************************)
\* the estimate of the g-th grid
EstimateOf(g) == RAM_estimate(DataField(sim_inputs[g].aperture_map))

\* the grid the k-th document of the expansion was made for
GridOf(k) ==
    CHOOSE g \in DOMAIN sim_inputs :
        Offset(g) < k /\ k <= Offset(g) + NComb(sim_inputs[g])

\* C14: every document made for a grid has that grid's own estimate as its
\* RAM_req: the g-th estimate is stored with the g-th grid specification,
\* every combination of a grid gets the grid's RAM_req, the queued job has
\* it, and it is what the scheduler reserves for the job's process.
C14_GridCost ==
    /\ pc \notin {"estimate", "raised"} =>
          \A g \in DOMAIN sim_inputs : sim_inputs[g].RAM_req = EstimateOf(g)
    /\ pc \notin {"estimate", "init_input_file", "combine", "raised"} =>
          \A k \in 1..(Len(docs) - 1) : docs[k + 1].RAM_req = EstimateOf(GridOf(k))
    /\ \A k \in DOMAIN queue0 : queue0[k].RAM_req = EstimateOf(GridOf(k))
    /\ \A k \in DOMAIN input_file_list :
          input_file_list[k].RAM_req = EstimateOf(GridOf(input_file_list[k].id))
    /\ \A n \in DOMAIN processes :
          processes[n] # DummyProcess /\ n \in DOMAIN RAM_in_use =>
              RAM_in_use[n] = EstimateOf(GridOf(processes[n]))

\* two jobs of one grid run side by side, each with the grid's estimate
\* reserved, while a job of a grid of another estimate waits
C14_Witness ==
    /\ mode = "bulk_run"
    /\ Len(processes) = 2
    /\ Len(RAM_in_use) = 2
    /\ DummyProcess \notin Range(processes)
    /\ GridOf(processes[1]) = GridOf(processes[2])
    /\ RAM_in_use[1] = EstimateOf(GridOf(processes[1]))
    /\ RAM_in_use[2] = RAM_in_use[1]
    /\ input_file_list # <<>>
    /\ input_file_list[1].RAM_req # RAM_in_use[1]

(***************************************************************************)
(* Properties of dry_run.                                                  *)
(***************************************************************************)
\* dry_run has ended after the expansion
DryEnded == mode = "dry_run" /\ pc \in {"done", "raised"} /\ docs # <<>>

\* nothing of the scheduler has happened
NothingLaunched ==
    /\ launched = <<>>
    /\ processes = <<>>
    /\ RAM_in_use = <<>>
    /\ input_file_list = <<>>

\* C15 as stated: in dry_run no process is launched and the active process
\* list is not touched; the documents are written in expansion order, and
\* when dry_run ends every one of them has been written once.
C15_Original ==
    mode = "dry_run" =>
        /\ NothingLaunched
        /\ IsPrefix(written, Ids(Len(docs) - 1))
        /\ DryEnded => written = Ids(Len(docs) - 1)

\* C15: in dry_run no process is launched and the active process list is
\* not touched, whatever num_CPUs and the budget are; the documents are
\* written in expansion order, each once; when dry_run returns every one
\* has been written, and when it ends with an exception of write_inp_file
\* the documents before the one that raised have been written and no other.
C15_DryRunWritesOnly ==
    mode = "dry_run" =>
        /\ NothingLaunched
        /\ IsPrefix(written, Ids(Len(docs) - 1))
        /\ DryEnded /\ pc = "done" => written = Ids(Len(docs) - 1)
        /\ DryEnded /\ pc = "raised" =>
              /\ Len(written) < Len(docs) - 1
              /\ raised \in {"KeyError", "IndexError"}

\* dry_run has returned with one CPU declared and three documents written
\* whose requirements together exceed the budget
C15_Witness ==
    /\ mode = "dry_run"
    /\ pc = "done"
    /\ num_CPUs = 1
    /\ written = <<1, 2, 3>>
    /\ SumSeq([k \in 1..3 |-> docs[k + 1].RAM_req]) > avail_RAM

(***************************************************************************)
(* estimate_req_RAM on lists of maps of nine shapes.                       *)
(***************************************************************************)
\* the map files of DataField
AllMaps == {<<"m">>, <<"c">>, <<"d">>, <<"e">>, <<"f">>, <<"g">>, <<"h">>,
            <<"n">>, <<"b">>}

EstGrids ==
    {[aperture_map |-> m, run_params |-> <<>>, filename_formats |-> <<>>,
      RAM_req |-> 0] : m \in AllMaps}

\* estimate_req_RAM(input_maps, avail_RAM) has been called
EstInit ==
    /\ SchedAt("estimate")
    /\ heap = <<>>
    /\ docs = <<>>
    /\ raised = "None"
    /\ target = 0
    /\ nops = 0
    /\ NoLine
    /\ mode = "none"
    /\ sys_RAM \in SysRAMs
    /\ sim_inputs \in SimInputs(EstGrids)
    /\ files = <<>>
    /\ init_infile = <<>>
    /\ RAM_per_map = <<>>
    /\ error = FALSE
    /\ parsed = FALSE

EstNext ==
    \/ EstimateMap
    \/ EstimateReturn

EstSpec == EstInit /\ [][EstNext]_vars

\* the area of the g-th map
Area(g) ==
    DataField(sim_inputs[g].aperture_map).nx
        * DataField(sim_inputs[g].aperture_map).nz

\* C16: of two maps estimated by estimate_req_RAM, the one with the
\* smaller nx * nz has the strictly smaller estimate.
C16_MonotonicInArea ==
    \A g \in DOMAIN RAM_per_map : \A h \in DOMAIN RAM_per_map :
        Area(g) < Area(h) => RAM_per_map[g] < RAM_per_map[h]

\* two maps have been estimated, the first a 200 x 500 one and the second
\* a 500 x 500 one
C16_Witness ==
    /\ Len(RAM_per_map) = 2
    /\ sim_inputs[1].aperture_map = <<"g">>
    /\ sim_inputs[2].aperture_map = <<"h">>
    /\ Area(1) < Area(2)
    /\ RAM_per_map[1] < RAM_per_map[2]

(***************************************************************************)
(* Further properties of the scheduler.                                    *)
(***************************************************************************)
\* the RAM_req of the job a list entry stands for, 0 for the placeholder
RequirementOf(p) == IF p = DummyProcess THEN 0 ELSE queue0[p].RAM_req

\* C17: in every state of start_simulations the process list and
\* RAM_in_use have the same length, and entry n of RAM_in_use is the
\* RAM_req of the job whose process is entry n of the process list, 0 for
\* the placeholder.
C17_ListsAligned ==
    /\ Len(processes) = Len(RAM_in_use)
    /\ \A n \in DOMAIN processes : RAM_in_use[n] = RequirementOf(processes[n])

\* the first job's process has been reaped and the processes of the second
\* and third jobs, of different requirements, are listed
C17_Witness ==
    /\ processes = <<2, 3>>
    /\ 1 \in terminated
    /\ Len(RAM_in_use) = 2
    /\ RAM_in_use[1] # RAM_in_use[2]

\* the process of a list entry has terminated (the placeholder always has)
Finished(p) == p = DummyProcess \/ p \in terminated

\* t is s without its k-th entry, the others in their order
Without(s, t, k) ==
    /\ k \in DOMAIN s
    /\ Len(t) = Len(s) - 1
    /\ \A n \in 1..(k - 1) : t[n] = s[n]
    /\ \A n \in k..Len(t) : t[n] = s[n + 1]

\* the step is one of check_processes that changes a list or returns
ReapStep ==
    /\ pc = "check_processes"
    /\ \/ processes' # processes
       \/ RAM_in_use' # RAM_in_use
       \/ pc' # "check_processes"

\* C18 as stated: check_processes returns only by removing one slot, the
\* lowest-index slot whose process has terminated, with the RAM_in_use
\* entry at its index; the other slots and reservations keep their order.
C18_Original ==
    [][ReapStep =>
          /\ pc' = "start_run"
          /\ \E k \in DOMAIN processes :
                /\ Without(processes, processes', k)
                /\ Without(RAM_in_use, RAM_in_use', k)
                /\ Finished(processes[k])
                /\ \A j \in 1..(k - 1) : ~Finished(processes[j])]_vars

\* C18: check_processes returns only by removing one slot with the
\* RAM_in_use entry at its index, the other slots and reservations keeping
\* their order; the slot removed is the one being polled, found terminated;
\* the sweep goes on to the next index only past a slot found still running
\* and starts again from the lowest index after every sleep.
C18_FirstFoundFinished ==
    [][/\ ReapStep =>
             /\ pc' = "start_run"
             /\ Without(processes, processes', i)
             /\ Without(RAM_in_use, RAM_in_use', i)
             /\ Finished(processes[i])
       /\ pc = "check_processes" /\ ~ReapStep =>
             \/ i' = i + 1 /\ i \in DOMAIN processes /\ ~Finished(processes[i])
             \/ i' = 1 /\ i > Len(processes)
             \/ i' = i]_vars

\* check_processes has just removed the first job's process while the
\* second job's process, also terminated, stays listed
C18_Witness ==
    /\ pc = "start_run"
    /\ processes = <<2>>
    /\ {1, 2} \subseteq terminated
    /\ Len(RAM_in_use) = 1
    /\ input_file_list # <<>>

\* no queued job has RAM_req at most avail_RAM minus the sum of RAM_in_use
NoneFits(queue, in_use) ==
    \A k \in DOMAIN queue : queue[k].RAM_req > avail_RAM - SumSeq(in_use)

\* C19: when start_run returns, the queue is empty, or the number of
\* active slots is at least num_CPUs, or no queued job has RAM_req at most
\* the free memory: it never returns with a free slot and a queued job
\* that fits.
C19_AdmitsAllItCan ==
    [][pc = "admit" /\ pc' = "while" =>
          \/ input_file_list' = <<>>
          \/ Len(processes') >= num_CPUs
          \/ NoneFits(input_file_list', RAM_in_use')]_vars

\* start_run has returned after a launch with a slot free and jobs queued,
\* none of which fits
C19_Witness ==
    /\ pc = "while"
    /\ launched # <<>>
    /\ Len(processes) >= 1
    /\ Len(processes) < num_CPUs
    /\ input_file_list # <<>>
    /\ NoneFits(input_file_list, RAM_in_use)
    /\ \E k \in DOMAIN input_file_list : input_file_list[k].RAM_req <= avail_RAM


\* the ids of the jobs still in the queue
QueuedIds == {input_file_list[k].id : k \in DOMAIN input_file_list}

\* the input-file path the formats of the document resolve to: 'i%P%' with
\* the value of P put in, any other format as it is
ResolvedPath(h, doc) ==
    LET f == DictGet(doc.filename_formats, input_file)
    IN  IF f = <<"i", "%", "P", "%">>
        THEN <<"i">> \o h[DictGet(doc.arg_dict, <<"P">>)].value
        ELSE f

\* the jobs are past each stage in nested order, and every command is the
\* EXE-FILE value, one space and the resolved path of the job's document
StagesNested ==
    /\ Range(written) \cap QueuedIds = {}
    /\ Len(launched) <= Len(written)
    /\ launched = SubSeq(written, 1, Len(launched))
    /\ Range(processes) \ {DummyProcess} \subseteq Range(launched)
    /\ Len(RAM_in_use) = Len(processes)
    /\ Len(cmds) = Len(launched)
    /\ \A n \in DOMAIN cmds :
          LET doc == docs[launched[n] + 1]
          IN  /\ doc.outfile_name = ResolvedPath(heap, doc)
              /\ cmds[n] = heap[DictGet(doc.arg_dict, EXE_FILE)].value
                              \o <<" ">> \o ResolvedPath(heap, doc)

\* C20: in bulk_run every admitted job is removed from the queue, then its
\* paths are resolved and its file written, then its process is launched
\* with the command made of the EXE-FILE value, one space and the resolved
\* input-file path, and only then is its reservation added (the one entry
\* added otherwise is the placeholder's, at the start of start_simulations);
\* a job whose file was not written is never launched.
C20_StepsInOrder ==
    [][mode = "bulk_run" =>
         /\ StagesNested'
         /\ written' # written =>
              /\ written' = Append(written, inp_file.id)
              /\ inp_file.id \notin QueuedIds
              /\ inp_file.id \notin Range(launched')
         /\ launched' # launched =>
              /\ launched' = Append(launched, inp_file.id)
              /\ inp_file.id \in Range(written)
              /\ inp_file.id \notin Range(processes')
              /\ RAM_in_use' = RAM_in_use
         /\ Len(RAM_in_use') > Len(RAM_in_use) /\ pc # "combined" =>
              /\ inp_file.id \in Range(launched)
              /\ processes' = Append(processes, inp_file.id)
              /\ RAM_in_use' = Append(RAM_in_use, inp_file.RAM_req)
         /\ pc' = "raised" /\ pc = "write" =>
              /\ inp_file.id \notin Range(written')
              /\ inp_file.id \notin Range(launched')]_vars

\* two jobs of one grid have been launched with 'sim i1' and 'sim i2' and
\* both are in the list with their reservations
C20_Witness ==
    /\ mode = "bulk_run"
    /\ cmds = << <<"s", "i", "m", " ", "i", "1">>,
                 <<"s", "i", "m", " ", "i", "2">> >>
    /\ launched = <<1, 2>>
    /\ processes = <<1, 2>>
    /\ Len(RAM_in_use) = 2

\* a job whose names did not resolve has ended bulk_run after another was
\* launched
C20_WitnessNotWritten ==
    /\ mode = "bulk_run"
    /\ pc = "raised"
    /\ launched # <<>>
    /\ inp_file.id \notin Range(written)

\* every job of the initial queue fits the whole budget and there is a slot
Satisfiable ==
    /\ num_CPUs >= 1
    /\ \A k \in DOMAIN queue0 : queue0[k].RAM_req <= avail_RAM

\* C21: with num_CPUs >= 1 and every queued job's RAM_req <= avail_RAM,
\* check_processes is never inside its sweep with a non-empty queue and an
\* empty process list.
C21_ReapHasSlots ==
    (Satisfiable /\ pc = "check_processes" /\ input_file_list # <<>>)
        => processes # <<>>

\* check_processes has been entered again after a launch, with a job still
\* queued that does not fit beside the running one
C21_Witness ==
    /\ Satisfiable
    /\ pc = "check_processes"
    /\ i = 1
    /\ input_file_list # <<>>
    /\ launched # <<>>
    /\ DummyProcess \notin Range(processes)
    /\ Len(processes) < num_CPUs

(***************************************************************************)
(* start_simulations called with no slot or with no memory.  A document's  *)
(* RAM_req is 0.0 until a caller sets it, so the queued jobs here may      *)
(* need nothing.                                                           *)
(***************************************************************************)
ZeroJobs(n) == [1..n -> [RAM_req : 0..MaxReq, resolves : BOOLEAN]]

\* start_simulations entered with a non-empty queue and num_CPUs or
\* avail_RAM zero
ZeroInit ==
    /\ \E n \in 1..MaxJobs : \E f \in ZeroJobs(n) :
          /\ input_file_list = Queue(f)
          /\ queue0 = Queue(f)
    /\ num_CPUs \in 0..MaxCPUs
    /\ avail_RAM \in 0..MaxRAM
    /\ num_CPUs = 0 \/ avail_RAM = 0
    /\ processes = <<DummyProcess>>
    /\ RAM_in_use = <<0>>
    /\ pc = "while"
    /\ i = 1
    /\ free_RAM = 0
    /\ recheck = FALSE
    /\ inp_file = NoJob
    /\ proc = None
    /\ terminated = {}
    /\ written = <<>>
    /\ launched = <<>>
    /\ cmds = <<>>
    /\ NoDocs
    /\ NoRun
    /\ NoLine

ZeroSpec == ZeroInit /\ [][Next]_vars

\* nothing has been admitted and start_simulations has not been left
NeverAdmitted ==
    /\ input_file_list = queue0
    /\ written = <<>>
    /\ launched = <<>>
    /\ pc \notin {"done", "raised"}

\* every queued job needs some memory
AllNeedMemory == \A k \in DOMAIN queue0 : queue0[k].RAM_req > 0

\* C22 as stated: with a non-empty queue and num_CPUs zero or avail_RAM
\* zero, no job is ever admitted and start_simulations never returns.
C22_Original ==
    (queue0 # <<>> /\ (num_CPUs = 0 \/ avail_RAM = 0)) => NeverAdmitted

\* C22: with a non-empty queue, and num_CPUs zero or avail_RAM zero with
\* every queued job needing more than zero memory, no job is ever admitted
\* and start_simulations never returns.
C22_NeverAdmits ==
    (queue0 # <<>> /\ (num_CPUs = 0 \/ (avail_RAM = 0 /\ AllNeedMemory)))
        => NeverAdmitted

\* with slots but no memory, check_processes sweeps an empty list, the
\* placeholder reaped and every job still queued
C22_Witness ==
    /\ avail_RAM = 0
    /\ num_CPUs >= 1
    /\ AllNeedMemory
    /\ Len(queue0) >= 2
    /\ pc = "check_processes"
    /\ processes = <<>>
    /\ i > Len(processes)
    /\ input_file_list = queue0

\* with memory but no slot, the same
C22_WitnessNoSlot ==
    /\ num_CPUs = 0
    /\ avail_RAM >= 1
    /\ Len(queue0) >= 2
    /\ pc = "check_processes"
    /\ processes = <<>>
    /\ i > Len(processes)
    /\ input_file_list = queue0

\* the recorded value slot lies beyond the last token of the line
SlotOutOfRange(obj) ==
    obj.value_index > 0 /\ obj.value_index + 1 > Len(obj.line_arr)

\* C23: update_value on a line whose recorded value slot is out of range
\* of its tokens (a last token ending with ':' and nothing after it) does
\* not fail and replaces the whole line with the new value.
C23_FallsBack ==
    [][(line_calls'[1].op = "update_value" /\ SlotOutOfRange(line_objs[1]))
          => /\ raised' = "None"
             /\ line_objs'[1].line = line_calls'[1].new_value]_vars

\* update_value has been called on the line 'K: ' and has raised
\* IndexError, the line left as it was
C23_Raised ==
    /\ line_text = <<"K", ":", " ">>
    /\ line_calls[1].op = "update_value"
    /\ raised = "IndexError"
    /\ line_objs[1].line = ArgInput(line_text).line
    /\ line_objs[1].value = <<"N", "O", "N", "E">>

\* the objects made by parsing in the current state: the one made of
\* line_text while no call has been made on it, the one made of a rendering
ParsedNow ==
    (IF line_calls = <<NoCall>> THEN {line_objs[1]} ELSE {})
        \cup (IF Len(line_objs) = 2 /\ line_calls[1].op = "output_line"
              THEN {line_objs[2]} ELSE {})

\* the tokens ending with ':' that have a token after them
FollowedColons(arr) ==
    {k \in 1..(Len(arr) - 1) : EndsWithColon(arr[k])}

\* the last token ending with ':', 0 when there is none
LastColon(arr) ==
    LET ks == {k \in DOMAIN arr : EndsWithColon(arr[k])}
    IN  IF ks = {} THEN 0 ELSE CHOOSE k \in ks : \A j \in ks : j <= k

\* C24 as stated: a value slot is recorded exactly when some token ends
\* with ':' and has a token after it, and the slot is that next token; in
\* every other case the value is the full line and no index is recorded.
C24_Original ==
    \A obj \in ParsedNow :
        IF FollowedColons(obj.line_arr) # {}
        THEN \E k \in FollowedColons(obj.line_arr) :
                /\ obj.value_index = k
                /\ obj.value = obj.line_arr[k + 1]
        ELSE /\ obj.value_index = -1
             /\ obj.value = obj.line

\* the value and the slot index of the line object are those of its text:
\* the position after the last token ending with ':' when the text has a
\* ':' followed by whitespace, else the full line and no index
SlotOfText(obj) ==
    LET arr == obj.line_arr
        k == LastColon(arr)
    IN  IF HasColonSpace(obj.line)
        THEN /\ k > 0
             /\ obj.value_index = k
             /\ obj.value = IF k < Len(arr) THEN arr[k + 1] ELSE NONE
        ELSE /\ obj.value_index = -1
             /\ obj.value = obj.line

\* C24: a value slot is recorded exactly when the line has a ':' followed
\* by whitespace; the slot is the position after the last token ending
\* with ':', and the value is the token there, or 'NONE' when that token is
\* the last of the line; in every other case the value is the full line
\* and no index is recorded.
C24_SlotAfterLastColon == \A obj \in ParsedNow : SlotOfText(obj)

\* 'K: : K' has been parsed: two tokens end with ':', the slot follows the
\* second
C24_Witness ==
    /\ line_text = <<"K", ":", " ", ":", " ", "K">>
    /\ line_calls = <<NoCall>>
    /\ line_objs[1].value_index = 2
    /\ line_objs[1].value = <<"K">>

\* 'K: ' has been parsed: value 'NONE' and a slot beyond the one token
C24_WitnessNoToken ==
    /\ line_text = <<"K", ":", " ">>
    /\ line_calls = <<NoCall>>
    /\ line_objs[1].value_index = 1
    /\ line_objs[1].value = NONE
    /\ Len(line_objs[1].line_arr) = 1

\* the keys of args
ArgKeys(args) == {args[k].key : k \in DOMAIN args}

\* what update_args(args) on docs[d] is to have done: each pair whose key is
\* a keyword of the document has its line's value set and no placeholder
\* stored, every other pair is stored as a placeholder, and the lines of the
\* keywords that are not keys of args are as they were
UpdateArgsEffect(d, args) ==
    /\ docs'[d].arg_dict = docs[d].arg_dict
    /\ docs'[d].arg_order = docs[d].arg_order
    /\ \A k \in DOMAIN args :
          IF DictHas(docs[d].arg_dict, args[k].key)
          THEN /\ heap'[DictGet(docs[d].arg_dict, args[k].key)].value
                      = args[k].val
               /\ DictHas(docs'[d].filename_format_args, args[k].key)
                      = DictHas(docs[d].filename_format_args, args[k].key)
          ELSE /\ DictHas(docs'[d].filename_format_args, args[k].key)
               /\ DictGet(docs'[d].filename_format_args, args[k].key)
                      = args[k].val
    /\ \A k \in DOMAIN docs[d].arg_dict :
          docs[d].arg_dict[k].key \notin ArgKeys(args) =>
              heap'[docs[d].arg_dict[k].val] = heap[docs[d].arg_dict[k].val]

\* C25: update_args never raises, whatever the keys: each pair whose key is
\* a keyword of the document updates that line's value and stores no
\* placeholder, every other pair is stored in the extra-placeholder
\* mapping and changes no line.
C25_NeverRaises ==
    [][\A d \in DOMAIN docs : \A args \in ArgChoices :
          DocUpdateArgs(d, args) =>
              /\ raised' = "None"
              /\ UpdateArgsEffect(d, args)]_vars

\* the calls of update_args that return do what C25 says
C25_EffectOnReturn ==
    [][\A d \in DOMAIN docs : \A args \in ArgChoices :
          (DocUpdateArgs(d, args) /\ raised' = "None") =>
              UpdateArgsEffect(d, args)]_vars

\* update_args({'P': '5', 'K': 'v'}) on the parsed template with the line
\* 'K: ' has set P and then raised IndexError
C25_Raised ==
    /\ nops = 1
    /\ raised = "IndexError"
    /\ DictHas(docs[1].arg_dict, <<"K">>)
    /\ heap[DictGet(docs[1].arg_dict, <<"P">>)].value = <<"5">>

\* update_args({'Q': '9', 'q': 'x'}) has returned: the line Q set, the
\* placeholder q stored
C25_WitnessReturned ==
    /\ nops = 1
    /\ raised = "None"
    /\ DictHas(docs[1].arg_dict, <<"Q">>)
    /\ heap[DictGet(docs[1].arg_dict, <<"Q">>)].value = <<"9">>
    /\ DictHas(docs[1].filename_format_args, <<"q">>)
    /\ DictGet(docs[1].filename_format_args, <<"q">>) = <<"x">>

\* the declared output names of the document that are no keyword of it and
\* are not the reserved name input_file
MissingNames(doc) ==
    {doc.filename_formats[k].key : k \in DOMAIN doc.filename_formats}
        \ ({doc.arg_dict[k].key : k \in DOMAIN doc.arg_dict} \cup {input_file})

\* C26: construct_file_names raises KeyError naming the field whenever a
\* declared output name is no keyword of the document and is not
\* input_file; input_file never causes it; write_inp_file then writes no
\* file.
C26_MissingNameIsFatal ==
    [][\A d \in DOMAIN docs :
          DocConstructFileNames(d) =>
              LET r == construct_file_names(heap, docs[d])
                  missing == MissingNames(docs[d])
              IN  /\ missing # {} =>
                        /\ raised' = "KeyError"
                        /\ r.field \in missing
                        /\ write_inp_file(heap, docs[d]).file = <<>>
                  /\ raised' = "KeyError" => missing # {}]_vars

\* the same for the calls in which no line is updated out of range
C26_FatalUnlessIndexError ==
    [][\A d \in DOMAIN docs :
          DocConstructFileNames(d) =>
              LET r == construct_file_names(heap, docs[d])
                  missing == MissingNames(docs[d])
              IN  /\ (missing # {} /\ raised' # "IndexError") =>
                        /\ raised' = "KeyError"
                        /\ r.field \in missing
                        /\ write_inp_file(heap, docs[d]).file = <<>>
                  /\ raised' = "KeyError" => missing # {}]_vars

\* construct_file_names on a clone with the formats {'K': 'x', 'SUM': 's'}
\* of the template with the line 'K: ' and no line SUM has raised IndexError
C26_Raised ==
    /\ Len(docs) = 2
    /\ target = 2
    /\ docs[2].filename_formats = InputFile(FormatsKSUM).filename_formats
    /\ DictHas(docs[2].arg_dict, <<"K">>)
    /\ MissingNames(docs[2]) = {<<"S", "U", "M">>}
    /\ raised = "IndexError"

\* construct_file_names has raised KeyError for SUM
C26_WitnessKeyError ==
    /\ Len(docs) = 2
    /\ target = 2
    /\ MissingNames(docs[2]) = {<<"S", "U", "M">>}
    /\ raised = "KeyError"

\* the keyword parse_input_file gives a source line
KeywordOfLine(line) == ArgInput(StripAfterSemicolons(line)).keyword

\* the last line of the file with the keyword of its k-th line
LastOfKeyword(file, k) ==
    LET js == {j \in DOMAIN file :
                  KeywordOfLine(file[j]) = KeywordOfLine(file[k])}
    IN  file[CHOOSE j \in js : \A m \in js : m <= j]

\* the order list has the keyword of each source line, in file order
OrderListFaithful ==
    /\ Len(docs[1].arg_order) = Len(init_infile)
    /\ \A k \in DOMAIN init_infile :
          docs[1].arg_order[k] = KeywordOfLine(init_infile[k])

\* C27: the order list of a parsed document holds one keyword per source
\* line in file order, and writing the unmodified document emits at every
\* position the text of the source line of that position, also where a
\* later line has the same keyword.
C27_FaithfulRendering ==
    (mode = "none" /\ files # <<>>) =>
        /\ OrderListFaithful
        /\ Len(files[1].content) = Len(init_infile)
        /\ \A k \in DOMAIN init_infile :
              files[1].content[k] = init_infile[k]

\* what the written file holds: at every position the text of the last
\* source line with that position's keyword, the blanks after leading
\* semicolons removed
C27_RendersLastOfKeyword ==
    (mode = "none" /\ files # <<>>) =>
        /\ OrderListFaithful
        /\ Len(files[1].content) = Len(init_infile)
        /\ \A k \in DOMAIN init_infile :
              files[1].content[k] =
                  StripAfterSemicolons(LastOfKeyword(init_infile, k))

\* the file 'EXE-FILE: sim', 'P: 1', 'P: 3' has been parsed and written:
\* the second line of the written file is 'P: 3'
C27_Witness ==
    /\ mode = "none"
    /\ init_infile = <<LineEXE, LineP, LineP3>>
    /\ files # <<>>
    /\ files[1].content = <<LineEXE, LineP3, LineP3>>
    /\ docs[1].arg_order = << EXE_FILE, <<"P">>, <<"P">> >>

\* the addresses of the lines of a document
LineAddrs(doc) == {doc.arg_dict[k].val : k \in DOMAIN doc.arg_dict}

\* the template is as it was: the document, and every line it points at
TemplateUntouched ==
    /\ docs'[1] = docs[1]
    /\ \A a \in LineAddrs(docs[1]) : heap'[a] = heap[a]

\* no file written, no process launched, nothing queued
NoOutsideEffect ==
    /\ files' = files
    /\ written' = written
    /\ launched' = launched
    /\ cmds' = cmds
    /\ processes' = processes
    /\ sim_inputs' = sim_inputs

\* no two documents point at the same line
NoSharedLine ==
    \A d, e \in DOMAIN docs :
        d # e => LineAddrs(docs[d]) \cap LineAddrs(docs[e]) = {}

\* C28: combine_run_args leaves the template as it was (every line, the
\* order list, the filename-template mapping, the extra-placeholder mapping
\* and RAM_req), writes no file and launches no process, and the documents
\* it makes share no line with the template or with each other.
C28_CombineIsPure ==
    [][Combine => /\ TemplateUntouched
                  /\ NoOutsideEffect
                  /\ NoSharedLine']_vars

\* combine_run_args has returned three documents or more, one of them with
\* a value of P the template does not have
C28_Witness ==
    /\ pc = "combined"
    /\ Len(docs) >= 4
    /\ DictHas(docs[1].arg_dict, <<"P">>)
    /\ \E d \in 2..Len(docs) :
          heap[DictGet(docs[d].arg_dict, <<"P">>)].value
              # heap[DictGet(docs[1].arg_dict, <<"P">>)].value
    /\ files = <<>>

\* no element occurs twice in the sequence
NoRepeat(s) == \A j, k \in DOMAIN s : s[j] = s[k] => j = k

\* C29: no job is ever launched twice, and when start_simulations returns
\* every job of the initial queue has been removed from the queue and
\* launched exactly once: the launches are as many as the initial queue is
\* long.
C29_EachJobOnce ==
    /\ NoRepeat(launched)
    /\ Range(launched) \subseteq {queue0[k].id : k \in DOMAIN queue0}
    /\ Range(launched) \cap QueuedIds = {}
    /\ pc = "done" =>
          /\ input_file_list = <<>>
          /\ Len(launched) = Len(queue0)
          /\ Range(launched) = {queue0[k].id : k \in DOMAIN queue0}

\* start_simulations has returned after launching three jobs, the third
\* of the queue before the second
C29_Witness ==
    /\ pc = "done"
    /\ Len(queue0) = 3
    /\ launched = <<1, 3, 2>>

\* the documents a clone can be asked of, with the formats it is given
CloneCalls ==
    {<<d, f>> : d \in DOMAIN docs, f \in {<<>>} \cup {<<g>> : g \in Formats}}

\* docs[d] and the clone just made of it have the same order list and the
\* same keywords, and P holds of every line of docs[d] and the clone's
\* line of the same keyword
CloneLines(d, P(_, _)) ==
    LET src == docs[d]
        new == docs'[Len(docs) + 1]
    IN  /\ new.arg_order = src.arg_order
        /\ DictKeys(new.arg_dict) = DictKeys(src.arg_dict)
        /\ \A k \in DOMAIN src.arg_dict :
              P(heap[src.arg_dict[k].val], heap'[new.arg_dict[k].val])

\* the four fields of the two lines are equal
SameFields(a, b) ==
    /\ b.keyword = a.keyword
    /\ b.value = a.value
    /\ b.value_index = a.value_index
    /\ b.commented_out = a.commented_out

\* C30: every line of a clone has the keyword, the current value,
\* the value-slot index and the disabled flag of the source document's line
\* of that keyword, and the clone's order list equals the source's,
\* whatever update_args and update_value calls came before.
C30_Original ==
    [][\A c \in CloneCalls :
          DocClone(c[1], c[2]) => CloneLines(c[1], SameFields)]_vars

\* the lines a parsed template has
ParsedLines ==
    UNION {{ArgInput(StripAfterSemicolons(t[k])) : k \in DOMAIN t} :
              t \in Templates}

\* the line is as it was parsed, or as it was parsed with a slot in range
\* and then given one of the one-token values
ParsedOrSet(a) ==
    \/ a \in ParsedLines
    \/ \E p \in ParsedLines :
          \E v \in {<<"7">>, <<"9">>, <<"5">>, <<"v">>}, u \in BOOLEAN :
              /\ p.value_index > 0
              /\ update_value(p, v, u).raised = "None"
              /\ a = update_value(p, v, u).arg

\* the clone's line renders as the source's line does, its flag says
\* whether that text begins with ';', its value and slot are those of the
\* text; its four fields are the source's when the source line is as parsed
\* or was set to a one-token value in its slot
Reparsed(a, b) ==
    /\ output_line(b) = output_line(a)
    /\ b.commented_out = (output_line(a) # <<>> /\ Head(output_line(a)) = ";")
    /\ b.keyword = Keyword(b.line_arr[1])
    /\ SlotOfText(b)
    /\ ParsedOrSet(a) => SameFields(a, b)

\* what clone() does: it makes every line anew from the source line's
\* rendered text; the order list and the keywords are the source's, every
\* line renders as the source's line does and has the flag, value and slot
\* that text parses to; they are the source line's for a line as parsed or
\* set to a one-token value in its slot
C30_CloneReparses ==
    [][\A c \in CloneCalls :
          DocClone(c[1], c[2]) => CloneLines(c[1], Reparsed)]_vars

\* a clone has been made of a document whose line P was given the value
\* 'a b': the clone's value of P is 'a'
C30_Witness ==
    /\ Len(docs) = 2
    /\ target = 2
    /\ DictHas(docs[1].arg_dict, <<"P">>)
    /\ heap[DictGet(docs[1].arg_dict, <<"P">>)].value = <<"a", " ", "b">>
    /\ heap[DictGet(docs[2].arg_dict, <<"P">>)].value = <<"a">>
    /\ output_line(heap[DictGet(docs[2].arg_dict, <<"P">>)])
          = output_line(heap[DictGet(docs[1].arg_dict, <<"P">>)])

\* a clone has been made of a document with the commented line ';Q: 2' set
\* to '9': the fields are equal
C30_WitnessEqual ==
    /\ Len(docs) = 2
    /\ target = 2
    /\ DictHas(docs[1].arg_dict, <<"Q">>)
    /\ heap[DictGet(docs[1].arg_dict, <<"Q">>)].value = <<"9">>
    /\ SameFields(heap[DictGet(docs[1].arg_dict, <<"Q">>)],
                  heap[DictGet(docs[2].arg_dict, <<"Q">>)])
=============================================================================
